---- MODULE Spec2Model ----
(***************************************************************************)
(* vanilla-smart-select: the Item Store (DataAdapter), the Remote Source   *)
(* (AjaxAdapter) and the Query Coordinator (ResultsAdapter), with the      *)
(* public API of VanillaSmartSelect that drives them.                      *)
(*                                                                         *)
(* Handlers run to completion on the single-threaded event loop, so each   *)
(* handler is one action.  A handler is written as a function from a state *)
(* record to a state record, so that the calls it makes (select -> emit    *)
(* SELECT -> update -> _updateWithAjax -> query) compose as in the code.   *)
(***************************************************************************)
EXTENDS Integers, Sequences, FiniteSets, TLC

\* ------------------------------------------------------------------ bounds
\* ids of the host element's options / of options.data are 1..MaxId
MaxId == 2
\* the largest maximumSelectionLength explored (0 = unlimited is always explored)
MaxSel == 2
\* searches (Symbol tokens) one run may issue
MaxToken == 3
\* loadMore is not followed beyond this page
MaxPage == 3
\* the longest options.data list explored
MaxItems == 2

\* the input events of one burst
MaxBurst == 2
MaxListeners == 3
MaxCalls == 3

VARIABLES
    _events,            \* EventEmitter._events for one event name: the registered listeners
    invoked,            \* per registration on the emitter: whether by once(), and how often the handler ran
    isDisabled,         \* VanillaSmartSelect.isDisabled
    searchValue,        \* the text in the search box (SearchBox input.value)
    registered,         \* element._vanillaSmartSelect is this instance
    burst,              \* history: the values of the input events of the last burst, each within the delay of the one before
    debounceTimers,     \* the pending timers debounce() has set, each with the term its closure holds
    searchDelay,        \* the delay DropdownAdapter._bindEvents computed for the input handler
    timers,             \* the timers set and neither cleared nor fired, per kind
    limitMessageTimeout, \* ResultsAdapter._limitMessageTimeout is not null
    errorMessageTimeout, \* ResultsAdapter._errorMessageTimeout is not null
    destroyed,          \* VanillaSmartSelect._isInitialized is false: destroy() has run
    prevents,           \* the cancelable events a listener on the host element prevents
    options,            \* Options: multiple, maximumSelectionLength, tags,
                        \* matchStrategy, ajax, ajax.cache, ajax.transport
    element,            \* the host <select>: its <option>s, in document order
    data,               \* DataAdapter.data
    selection,          \* DataAdapter.selection
    currentSearchTerm,  \* ResultsAdapter.currentSearchTerm
    currentPage,        \* ResultsAdapter.currentPage
    hasMore,            \* ResultsAdapter.hasMore
    isLoadingMore,      \* ResultsAdapter.isLoadingMore
    accumulatedResults, \* ResultsAdapter.accumulatedResults
    currentSearchToken, \* ResultsAdapter.currentSearchToken (0 = null)
    loadMoreTimeout,    \* ResultsAdapter._loadMoreTimeout is not null
    resultsList,        \* ResultsList.results: the displayed list
    isOpen,             \* Dropdown.isOpen
    currentRequest,     \* AjaxAdapter.currentRequest (0 = null)
    cache,              \* AjaxAdapter.cache: cache key -> normalized result
    inflight,           \* promises of AjaxAdapter.query() not yet settled
    nextToken,          \* the next fresh Symbol("search")
    lastAccepted,       \* history: the response the coordinator applied last
    call,               \* history: the handler that ran last, with its input
    ret,                \* history: what DataAdapter.select returned last
    highlightedIndex,   \* ResultsList.highlightedIndex (flat index, -1 = none)
    errorShown,         \* the .vs-results__error element is in the list
    events,             \* history: the events the last handler emitted
    ended               \* history: "ok", or how a call of the last handler
                        \* ended: "throw" (an exception left
                        \* AjaxAdapter.query), "hang" (a loop without end)

vars == <<_events, invoked, isDisabled, searchValue, registered, burst, debounceTimers, searchDelay, timers, limitMessageTimeout, errorMessageTimeout, destroyed, prevents, options, element, data, selection, currentSearchTerm, currentPage, hasMore, isLoadingMore, accumulatedResults, currentSearchToken, loadMoreTimeout, resultsList, isOpen, currentRequest, cache, inflight, nextToken, lastAccepted, call, ret, highlightedIndex, errorShown, events, ended>>

\* ------------------------------------------------------------- identities
\* An id is a JavaScript number or a JavaScript string.
NumId(n) == [k |-> "num", v |-> n]
StrId(n) == [k |-> "str", v |-> n]
Ids == {NumId(n) : n \in 1..MaxId} \cup {StrId(n) : n \in 1..MaxId}

\* String(id): a number becomes its decimal string, a string stays itself
String(id) == [k |-> "str", v |-> id.v]

\* a === b on ids: same type and same value
StrictEquals(a, b) == a.k = b.k /\ a.v = b.v

Item(id, disabled) == [id |-> id, disabled |-> disabled]
NoItem == [id |-> [k |-> "none", v |-> 0], disabled |-> FALSE]

\* ------------------------------------------------------------ the state
\* The current state as one record; handlers map such records to records.
Cur ==
    [_events |-> _events, invoked |-> invoked, isDisabled |-> isDisabled, searchValue |-> searchValue, registered |-> registered, burst |-> burst, debounceTimers |-> debounceTimers, searchDelay |-> searchDelay, timers |-> timers, limitMessageTimeout |-> limitMessageTimeout, errorMessageTimeout |-> errorMessageTimeout, destroyed |-> destroyed, prevents |-> prevents, options |-> options, element |-> element, data |-> data,
     selection |-> selection, currentSearchTerm |-> currentSearchTerm,
     currentPage |-> currentPage, hasMore |-> hasMore,
     isLoadingMore |-> isLoadingMore,
     accumulatedResults |-> accumulatedResults,
     currentSearchToken |-> currentSearchToken,
     loadMoreTimeout |-> loadMoreTimeout, resultsList |-> resultsList,
     isOpen |-> isOpen,
     currentRequest |-> currentRequest, cache |-> cache,
     inflight |-> inflight, nextToken |-> nextToken,
     lastAccepted |-> lastAccepted, call |-> call, ret |-> ret,
     highlightedIndex |-> highlightedIndex, errorShown |-> errorShown,
     events |-> events, ended |-> ended]

\* the state is the record s
Is(s) ==
    /\ _events = s._events
    /\ invoked = s.invoked
    /\ isDisabled = s.isDisabled
    /\ searchValue = s.searchValue
    /\ registered = s.registered
    /\ burst = s.burst
    /\ debounceTimers = s.debounceTimers
    /\ searchDelay = s.searchDelay
    /\ timers = s.timers
    /\ limitMessageTimeout = s.limitMessageTimeout
    /\ errorMessageTimeout = s.errorMessageTimeout
    /\ destroyed = s.destroyed
    /\ prevents = s.prevents
    /\ options = s.options
    /\ element = s.element
    /\ data = s.data
    /\ selection = s.selection
    /\ currentSearchTerm = s.currentSearchTerm
    /\ currentPage = s.currentPage
    /\ hasMore = s.hasMore
    /\ isLoadingMore = s.isLoadingMore
    /\ accumulatedResults = s.accumulatedResults
    /\ currentSearchToken = s.currentSearchToken
    /\ loadMoreTimeout = s.loadMoreTimeout
    /\ resultsList = s.resultsList
    /\ isOpen = s.isOpen
    /\ currentRequest = s.currentRequest
    /\ cache = s.cache
    /\ inflight = s.inflight
    /\ nextToken = s.nextToken
    /\ lastAccepted = s.lastAccepted
    /\ call = s.call
    /\ ret = s.ret
    /\ highlightedIndex = s.highlightedIndex
    /\ errorShown = s.errorShown
    /\ events = s.events
    /\ ended = s.ended

\* the next state is the record s
Commit(s) ==
    /\ _events' = s._events
    /\ invoked' = s.invoked
    /\ isDisabled' = s.isDisabled
    /\ searchValue' = s.searchValue
    /\ registered' = s.registered
    /\ burst' = s.burst
    /\ debounceTimers' = s.debounceTimers
    /\ searchDelay' = s.searchDelay
    /\ timers' = s.timers
    /\ limitMessageTimeout' = s.limitMessageTimeout
    /\ errorMessageTimeout' = s.errorMessageTimeout
    /\ destroyed' = s.destroyed
    /\ prevents' = s.prevents
    /\ options' = s.options
    /\ element' = s.element
    /\ data' = s.data
    /\ selection' = s.selection
    /\ currentSearchTerm' = s.currentSearchTerm
    /\ currentPage' = s.currentPage
    /\ hasMore' = s.hasMore
    /\ isLoadingMore' = s.isLoadingMore
    /\ accumulatedResults' = s.accumulatedResults
    /\ currentSearchToken' = s.currentSearchToken
    /\ loadMoreTimeout' = s.loadMoreTimeout
    /\ resultsList' = s.resultsList
    /\ isOpen' = s.isOpen
    /\ currentRequest' = s.currentRequest
    /\ cache' = s.cache
    /\ inflight' = s.inflight
    /\ nextToken' = s.nextToken
    /\ lastAccepted' = s.lastAccepted
    /\ call' = s.call
    /\ ret' = s.ret
    /\ highlightedIndex' = s.highlightedIndex
    /\ errorShown' = s.errorShown
    /\ events' = s.events
    /\ ended' = s.ended

\* the state a handler starts in: nothing emitted yet, nothing gone wrong
Begin == [Cur EXCEPT !.events = <<>>, !.ended = "ok"]

\* an event with the number it carries: maximum for selectionLimitReached,
\* params.page for the ajax events, 0 for the others
Event(name, n) == [name |-> name, n |-> n]

\* EventEmitter.emit, as far as the listeners outside the model go
emit(s, name, n) == [s EXCEPT !.events = Append(@, Event(name, n))]

\* setTimeout: one more timer of this kind is pending
setTimeout(s, kind) == [s EXCEPT !.timers[kind] = @ + 1]

\* clearTimeout of a handle that names a pending timer of this kind
clearTimeout(s, kind) == [s EXCEPT !.timers[kind] = @ - 1]

\* ----------------------------------------------------------------- strings
\* A JavaScript string is the sequence of its characters.  The characters
\* used: a, A, b, the space, and a with an acute accent (U+00E1), written a'.
Alphabet == {"a", "A", "a'", "b", " "}

\* String.prototype.toLowerCase
toLowerCase(str) ==
    [i \in 1..Len(str) |-> IF str[i] = "A" THEN "a" ELSE str[i]]

\* the diacritics table: the base form of a character outside
\* U+0000..U+007E, if it has an entry
diacritics(char) == IF char = "a'" THEN "a" ELSE char

\* removeDiacritics: every character outside U+0000..U+007E is replaced by
\* its table entry
removeDiacritics(str) == [i \in 1..Len(str) |-> diacritics(str[i])]

RECURSIVE trim(_)
\* String.prototype.trim
trim(str) ==
    IF str = <<>> THEN str
    ELSE IF Head(str) = " " THEN trim(Tail(str))
    ELSE IF str[Len(str)] = " " THEN trim(SubSeq(str, 1, Len(str) - 1))
    ELSE str

\* !term || term.trim() === ""
isBlank(term) == trim(term) = <<>>

\* String.prototype.startsWith
startsWith(text, term) ==
    Len(term) <= Len(text) /\ SubSeq(text, 1, Len(term)) = term

\* String.prototype.includes
strIncludes(text, term) ==
    \E i \in 0..(Len(text) - Len(term)) :
        SubSeq(text, i + 1, i + Len(term)) = term

\* ------------------------------------------------- the remote end point
\* What the server answers for (term, page): a deterministic paginated
\* source.  The empty term has two pages of one item, term "a" has one page.
Terms == {<<>>, <<"a">>}

ServerPages(term) == IF term = <<>> THEN 2 ELSE 1

ServerBase(term) == IF term = <<>> THEN 10 ELSE 20

ServerResponse(term, page) ==
    [results |-> IF page <= ServerPages(term)
                 THEN <<Item(NumId(ServerBase(term) + page), FALSE)>>
                 ELSE <<>>,
     more    |-> page < ServerPages(term)]

\* what query() resolves to on any failure
EmptyResponse == [results |-> <<>>, more |-> FALSE]

NoRequest ==
    [token |-> 0, term |-> <<>>, page |-> 0, append |-> FALSE,
     cached |-> FALSE, aborted |-> FALSE, value |-> EmptyResponse]

NoId == [k |-> "none", v |-> 0]

\* call: the handler that ran (op), the id or term it was given, the item it
\* passed to DataAdapter.select / unselect (NoItem if it called neither), and
\* for a settled promise the request, what it resolved to and how the
\* transport ended ("ok", "error", "abort"; "none" for the other handlers)
Called(op, id, term, item, req, resp) ==
    [op |-> op, id |-> id, term |-> term, item |-> item, req |-> req,
     resp |-> resp, how |-> "none"]

NoCall == Called("init", NoId, <<>>, NoItem, NoRequest, EmptyResponse)

NoAccepted ==
    [token |-> 0, term |-> <<>>, page |-> 0, append |-> FALSE,
     results |-> <<>>, more |-> FALSE]

\* ---------------------------------------------------------- AjaxAdapter
\* AjaxAdapter._getCacheKey: JSON.stringify({term, page})
_getCacheKey(term, page) == <<term, page>>

\* this.cache.has(key) / get(key) / set(key, value)
cacheHas(c, term, page) == \E e \in c : e.key = _getCacheKey(term, page)

cacheGet(c, term, page) ==
    (CHOOSE e \in c : e.key = _getCacheKey(term, page)).value

cacheSet(c, term, page, value) ==
    {e \in c : e.key # _getCacheKey(term, page)}
        \cup {[key |-> _getCacheKey(term, page), value |-> value]}

\* this.currentRequest.abort(): the pending transport request is told to
\* abort; whether it still delivers is decided when it settles
abort(s) ==
    [s EXCEPT !.inflight =
        {IF r.token = s.currentRequest /\ ~r.cached
         THEN [r EXCEPT !.aborted = TRUE] ELSE r : r \in s.inflight}]

\* AjaxAdapter.query as far as it runs synchronously.  The promise it
\* returns is the request record: token, append are the variables the
\* coordinator's then-callback closes over.
AjaxAdapter_query(s, term, page, token, append) ==
    LET req == [token |-> token, term |-> term, page |-> page,
                append |-> append, cached |-> FALSE, aborted |-> FALSE,
                value |-> EmptyResponse]
    IN  IF s.options.cache /\ cacheHas(s.cache, term, page)
        THEN [s EXCEPT !.inflight = @ \cup
                 {[req EXCEPT !.cached = TRUE,
                              !.value = cacheGet(s.cache, term, page)]}]
        ELSE IF s.currentRequest # 0 /\ s.options.transport = "custom"
        THEN [s EXCEPT !.ended = "throw"]
        ELSE LET s1 == IF s.currentRequest # 0 THEN abort(s) ELSE s
             IN  [emit(s1, "ajaxLoading", page)
                    EXCEPT !.currentRequest = token,
                           !.inflight = @ \cup {req}]

\* ----------------------------------------------------------- ResultsList
\* item.children && Array.isArray(item.children)
isGroup(item) == "children" \in DOMAIN item

RECURSIVE flatResults(_)
\* ResultsList.flatResults / KeyboardManager._getFlatRenderedItems: the
\* rendered entries, the children of a group instead of the group
flatResults(results) ==
    IF results = <<>> THEN <<>>
    ELSE (IF isGroup(Head(results)) THEN Head(results).children
          ELSE <<Head(results)>>) \o flatResults(Tail(results))

\* ResultsList.update: the container is emptied, which also removes a
\* displayed error message, and the list is rendered
ResultsList_update(s, results) ==
    [s EXCEPT !.resultsList = results,
              !.highlightedIndex = -1,
              !.errorShown = FALSE]

\* ResultsList.highlight
highlight(s, index) ==
    IF index < 0 \/ index >= Len(flatResults(s.resultsList)) THEN s
    ELSE [s EXCEPT !.highlightedIndex = index]

\* ResultsAdapter._getFlatIndexForGroupChild (groupIndex, childIndex from 0)
_getFlatIndexForGroupChild(results, groupIndex, childIndex) ==
    Len(flatResults(SubSeq(results, 1, groupIndex))) + childIndex

\* ResultsAdapter._autoHighlightFirst: the first entry, in document order,
\* that is an enabled item or a group with an enabled child; an item is
\* highlighted by its index in results, a child by its flat index
_autoHighlightFirst(s, results) ==
    LET enabledChild(g) == {j \in 1..Len(g.children) : ~g.children[j].disabled}
        hit(i) == IF isGroup(results[i]) THEN enabledChild(results[i]) # {}
                  ELSE ~results[i].disabled
        hits == {i \in 1..Len(results) : hit(i)}
    IN  IF hits = {} THEN s
        ELSE LET i == CHOOSE i \in hits : \A k \in hits : i <= k
             IN  IF isGroup(results[i])
                 THEN LET j == CHOOSE j \in enabledChild(results[i]) :
                                 \A k \in enabledChild(results[i]) : j <= k
                      IN  highlight(s, _getFlatIndexForGroupChild(
                                           results, i - 1, j - 1))
                 ELSE highlight(s, i - 1)

\* a showError that sets its timer without clearing the one before
showError_noClear(s) ==
    [setTimeout(s, "errorMessage") EXCEPT !.errorShown = TRUE,
                                          !.errorMessageTimeout = TRUE]

\* ResultsAdapter.showError, called by the AJAX_ERROR listener
showError(s) ==
    LET s1 == IF s.errorMessageTimeout THEN clearTimeout(s, "errorMessage")
              ELSE s
    IN  [setTimeout(s1, "errorMessage") EXCEPT !.errorShown = TRUE,
                                               !.errorMessageTimeout = TRUE]

\* ResultsAdapter._showLimitMessage
_showLimitMessage(s) ==
    LET s1 == IF s.limitMessageTimeout THEN clearTimeout(s, "limitMessage")
              ELSE s
    IN  [setTimeout(s1, "limitMessage") EXCEPT !.limitMessageTimeout = TRUE]

\* ------------------------------------------------------- ResultsAdapter
\* _updateWithAjax keeping the page and the accumulated results when the
\* term changes
_updateWithAjax_noReset(s, term, append) ==
    LET s2 == [s EXCEPT !.currentSearchTerm = term,
                        !.currentSearchToken = s.nextToken,
                        !.nextToken = s.nextToken + 1]
    IN  AjaxAdapter_query(s2, term, s2.currentPage, s2.currentSearchToken,
                          append)

\* ResultsAdapter._updateWithAjax up to the call of query()
_updateWithAjax(s, term, append) ==
    LET changed == term # s.currentSearchTerm
        s1 == IF changed
              THEN [s EXCEPT !.currentPage = 1, !.accumulatedResults = <<>>]
              ELSE s
        s2 == [s1 EXCEPT !.currentSearchTerm = term,
                         !.currentSearchToken = s.nextToken,
                         !.nextToken = s.nextToken + 1]
    IN  AjaxAdapter_query(s2, term, s2.currentPage, s2.currentSearchToken,
                          IF changed THEN FALSE ELSE append)

\* SearchManager.search for a blank term: every item, groups untouched
search_blank(items) == items

\* a matcher that lower-cases but keeps the diacritics
_defaultMatcher_keepDiacritics(matchStrategy, term, item) ==
    IF isBlank(term) THEN TRUE
    ELSE IF item.disabled THEN FALSE
    ELSE CASE matchStrategy = "startsWith" ->
                 startsWith(toLowerCase(item.text), toLowerCase(term))
           [] matchStrategy = "exact" ->
                 toLowerCase(item.text) = toLowerCase(term)
           [] OTHER -> strIncludes(toLowerCase(item.text), toLowerCase(term))

\* SearchManager._defaultMatcher
_defaultMatcher(matchStrategy, term, item) ==
    IF isBlank(term) THEN TRUE
    ELSE IF item.disabled THEN FALSE
    ELSE LET normalizedTerm == removeDiacritics(toLowerCase(term))
             normalizedText == removeDiacritics(toLowerCase(item.text))
         IN  CASE matchStrategy = "startsWith" ->
                    startsWith(normalizedText, normalizedTerm)
               [] matchStrategy = "exact" -> normalizedText = normalizedTerm
               [] OTHER -> strIncludes(normalizedText, normalizedTerm)

RECURSIVE searchEach_wholeGroup(_, _, _)
\* a search that keeps a group as it is when one of its children matches
searchEach_wholeGroup(matchStrategy, items, term) ==
    IF items = <<>> THEN <<>>
    ELSE LET item == Head(items)
             rest == searchEach_wholeGroup(matchStrategy, Tail(items), term)
             hit == IF isGroup(item)
                    THEN \E i \in 1..Len(item.children) :
                            _defaultMatcher(matchStrategy, term,
                                            item.children[i])
                    ELSE _defaultMatcher(matchStrategy, term, item)
         IN  IF hit THEN <<item>> \o rest ELSE rest

RECURSIVE searchEach(_, _, _)
\* the forEach of SearchManager.search
searchEach(matchStrategy, items, term) ==
    IF items = <<>> THEN <<>>
    ELSE LET item == Head(items)
             rest == searchEach(matchStrategy, Tail(items), term)
         IN  IF isGroup(item)
             THEN LET filteredChildren ==
                          SelectSeq(item.children, LAMBDA child :
                              _defaultMatcher(matchStrategy, term, child))
                  IN  IF Len(filteredChildren) > 0
                      THEN <<[item EXCEPT !.children = filteredChildren]>>
                               \o rest
                      ELSE rest
             ELSE IF _defaultMatcher(matchStrategy, term, item)
                  THEN <<item>> \o rest
                  ELSE rest

\* SearchManager.search
search(matchStrategy, items, term) ==
    IF isBlank(term) THEN search_blank(items)
    ELSE searchEach(matchStrategy, items, term)

\* DEFAULTS.createTag, given {term: term.trim()}; NoItem is null
createTag(term) ==
    IF trim(term) = <<>> THEN NoItem
    ELSE [id |-> [k |-> "str", v |-> trim(term)], text |-> trim(term),
          disabled |-> FALSE, _isTag |-> TRUE]

\* String(id).toLowerCase()
lowerId(id) == toLowerCase(String(id).v)

\* the tag branch of _updateWithLocalData: tagExists looks at the entries
\* of filteredResults; DEFAULTS.insertTag puts the tag first
withTag(filteredResults, term) ==
    LET tag == createTag(trim(term))
        tagExists == \E i \in 1..Len(filteredResults) :
                        lowerId(filteredResults[i].id) = lowerId(tag.id)
    IN  IF tag # NoItem /\ ~tagExists THEN <<tag>> \o filteredResults
        ELSE filteredResults

\* ResultsAdapter._updateWithLocalData
_updateWithLocalData(s, term) ==
    LET found == search(s.options.matchStrategy, s.data, term)
        filteredResults == IF s.options.tags /\ ~isBlank(term)
                           THEN withTag(found, term) ELSE found
        s1 == ResultsList_update([s EXCEPT !.currentSearchTerm = term],
                                 filteredResults)
    IN  IF Len(filteredResults) > 0
        THEN _autoHighlightFirst(s1, filteredResults)
        ELSE s1

\* ResultsAdapter.update
update(s, term) ==
    IF s.options.ajax THEN _updateWithAjax(s, term, FALSE)
    ELSE _updateWithLocalData(s, term)

\* ---------------------------------------------------------- DataAdapter
\* DataAdapter._normalizeOption
_normalizeOption(option) == Item(option.value, option.disabled)

RECURSIVE _normalizeItem(_)
\* DataAdapter._normalizeItem (AjaxAdapter._normalizeItem is the same): the
\* item's own fields are kept, an undefined id (NoId) becomes the text, the
\* children of a group are normalized
_normalizeItem(item) ==
    IF "text" \notin DOMAIN item THEN Item(item.id, item.disabled)
    ELSE LET n == [item EXCEPT !.id = IF @.k = "none"
                                       THEN [k |-> "str", v |-> item.text]
                                       ELSE @]
         IN  IF isGroup(item)
             THEN [n EXCEPT !.children =
                      [i \in 1..Len(@) |-> _normalizeItem(@[i])]]
             ELSE n

Map(f(_), seq) == [i \in 1..Len(seq) |-> f(seq[i])]

\* DataAdapter.loadFromElement (no optgroups, no placeholder option)
loadFromElement(el) == Map(_normalizeOption, el)

\* DataAdapter.loadInitialSelection: option:checked, in document order
loadInitialSelection(el) ==
    Map(_normalizeOption, SelectSeq(el, LAMBDA o : o.selected))

\* DataAdapter.setData
setData(s, items) == [s EXCEPT !.data = Map(_normalizeItem, items)]

\* selectedIds.includes(value)
includes(sel, value) ==
    \E i \in 1..Len(sel) : StrictEquals(sel[i].id, value)

\* DataAdapter._updateElement
_updateElement(s) ==
    emit([s EXCEPT !.element =
             [i \in 1..Len(s.element) |->
                 [s.element[i] EXCEPT !.selected =
                     includes(s.selection, s.element[i].value)]]],
         "native change", 0)

\* this.selection.some((item) => item.id === data.id)
exists(sel, d) == \E i \in 1..Len(sel) : StrictEquals(sel[i].id, d.id)

\* the limit test of DataAdapter.select
limitReached(s) ==
    /\ s.options.maximumSelectionLength > 0
    /\ Len(s.selection) >= s.options.maximumSelectionLength

\* the tail of DataAdapter.select / unselect: sync the host control, emit
\* SELECT / UNSELECT, which ResultsAdapter answers with update(), then CHANGE
syncAndEmit(s, name) ==
    emit(update(emit(_updateElement(s), name, 0), <<>>), "change", 0)

\* the limit branch of DataAdapter.select: the notification carries maximum
\* and the message built from it
limitEvent(s) ==
    _showLimitMessage(emit(s, "selectionLimitReached",
                           s.options.maximumSelectionLength))

\* DataAdapter.select pushing in single mode as well
DataAdapter_select_singlePush(s, d) ==
    IF s.options.multiple /\ exists(s.selection, d)
    THEN [s EXCEPT !.ret = "false"]
    ELSE IF s.options.multiple /\ limitReached(s)
    THEN [limitEvent(s) EXCEPT !.ret = "false"]
    ELSE [syncAndEmit([s EXCEPT !.selection = Append(@, d)], "select")
            EXCEPT !.ret = "true"]

\* DataAdapter.select without the test for an entry with the same id
DataAdapter_select_noExists(s, d) ==
    IF ~s.options.multiple
    THEN [syncAndEmit([s EXCEPT !.selection = <<d>>], "select")
            EXCEPT !.ret = "true"]
    ELSE IF limitReached(s) THEN [limitEvent(s) EXCEPT !.ret = "false"]
    ELSE [syncAndEmit([s EXCEPT !.selection = Append(@, d)], "select")
            EXCEPT !.ret = "true"]

\* DataAdapter.select testing the limit before the duplicate
DataAdapter_select_limitFirst(s, d) ==
    IF ~s.options.multiple
    THEN [syncAndEmit([s EXCEPT !.selection = <<d>>], "select")
            EXCEPT !.ret = "true"]
    ELSE IF limitReached(s) THEN [limitEvent(s) EXCEPT !.ret = "false"]
    ELSE IF exists(s.selection, d) THEN [s EXCEPT !.ret = "false"]
    ELSE [syncAndEmit([s EXCEPT !.selection = Append(@, d)], "select")
            EXCEPT !.ret = "true"]

\* DataAdapter.select re-syncing the host element for a duplicate too
DataAdapter_select_syncAlways(s, d) ==
    IF ~s.options.multiple
    THEN [syncAndEmit([s EXCEPT !.selection = <<d>>], "select")
            EXCEPT !.ret = "true"]
    ELSE IF exists(s.selection, d)
    THEN [_updateElement(s) EXCEPT !.ret = "false"]
    ELSE IF limitReached(s) THEN [limitEvent(s) EXCEPT !.ret = "false"]
    ELSE [syncAndEmit([s EXCEPT !.selection = Append(@, d)], "select")
            EXCEPT !.ret = "true"]

\* DataAdapter.select
DataAdapter_select(s, d) ==
    IF ~s.options.multiple
    THEN [syncAndEmit([s EXCEPT !.selection = <<d>>], "select")
            EXCEPT !.ret = "true"]
    ELSE IF exists(s.selection, d) THEN [s EXCEPT !.ret = "false"]
    ELSE IF limitReached(s) THEN [limitEvent(s) EXCEPT !.ret = "false"]
    ELSE [syncAndEmit([s EXCEPT !.selection = Append(@, d)], "select")
            EXCEPT !.ret = "true"]

\* DataAdapter.unselect
DataAdapter_unselect(s, d) ==
    syncAndEmit([s EXCEPT !.selection =
        SelectSeq(@, LAMBDA item : ~StrictEquals(item.id, d.id))],
        "unselect")

\* DataAdapter.clear
DataAdapter_clear(s) == _updateElement([s EXCEPT !.selection = <<>>])

\* ---------------------------------------------- AjaxAdapter, settling
\* processResults + normalization of a successful transport response
normalizedResults(req) ==
    LET raw == ServerResponse(req.term, req.page)
    IN  [results |-> Map(_normalizeItem, raw.results), more |-> raw.more]

\* the then-callback of AjaxAdapter.query
AjaxAdapter_then(s, req) ==
    emit([s EXCEPT !.currentRequest = 0,
                   !.cache = IF s.options.cache
                             THEN cacheSet(@, req.term, req.page,
                                           normalizedResults(req))
                             ELSE @],
         "ajaxSuccess", req.page)

\* the catch-callback storing the empty result it resolves to in the cache
AjaxAdapter_catch_caching(s, req, isAbort) ==
    LET s1 == [s EXCEPT !.currentRequest = 0,
                        !.cache = IF s.options.cache
                                  THEN cacheSet(@, req.term, req.page,
                                                EmptyResponse)
                                  ELSE @]
    IN  IF isAbort THEN s1
        ELSE showError(emit(s1, "ajaxError", req.page))

\* the catch-callback of AjaxAdapter.query; isAbort: the error is an
\* AbortError.  AJAX_ERROR is answered by ResultsAdapter with showError().
AjaxAdapter_catch(s, req, isAbort) ==
    LET s1 == [s EXCEPT !.currentRequest = 0]
    IN  IF isAbort THEN s1
        ELSE IF s.destroyed THEN emit(s1, "ajaxError", req.page)
        ELSE showError(emit(s1, "ajaxError", req.page))

\* the then-callback past its token test: hasMore, accumulate or replace,
\* setData, ResultsList.update, and the highlight of a search that is not
\* a load-more
applyResponse(s, req, resp) ==
    LET acc == IF req.append /\ s.currentPage > 1
               THEN s.accumulatedResults \o resp.results
               ELSE resp.results
        s1 == setData([s EXCEPT !.hasMore = resp.more,
                                !.accumulatedResults = acc], acc)
        s2 == ResultsList_update(s1, acc)
        s3 == IF Len(acc) > 0 /\ ~req.append /\ ~s.destroyed
              THEN _autoHighlightFirst(s2, acc) ELSE s2
    IN  [s3 EXCEPT !.lastAccepted =
                       [token |-> req.token, term |-> req.term,
                        page |-> req.page, append |-> req.append,
                        results |-> resp.results, more |-> resp.more]]

\* the then-callback applying whatever arrives, without the token test
_updateWithAjax_then_lastArrived(s, req, resp) == applyResponse(s, req, resp)

\* the then-callback taking hasMore from a superseded response
_updateWithAjax_then_staleHasMore(s, req, resp) ==
    IF s.currentSearchToken # req.token
    THEN [s EXCEPT !.hasMore = resp.more]
    ELSE applyResponse(s, req, resp)

\* ------------------------------------- ResultsAdapter, the then-callback
\* the then-callback of ResultsAdapter._updateWithAjax, for the promise of
\* request req resolving to resp
_updateWithAjax_then(s, req, resp) ==
    IF s.currentSearchToken # req.token THEN s
    ELSE applyResponse(s, req, resp)

\* ResultsAdapter.loadMore, past its guard
loadMore(s) ==
    LET s1 == _updateWithAjax([s EXCEPT !.isLoadingMore = TRUE,
                                        !.currentPage = @ + 1],
                              s.currentSearchTerm, TRUE)
        s2 == IF s1.loadMoreTimeout THEN clearTimeout(s1, "loadMore")
              ELSE s1
    IN  IF s1.ended = "throw" THEN s1
        ELSE [setTimeout(s2, "loadMore") EXCEPT !.loadMoreTimeout = TRUE]

\* --------------------------------------------- dropdown and result list
\* VanillaSmartSelect.close -> DropdownAdapter.close: the box is cleared
\* and QUERY {term: ""} is emitted
\* vs:closing is dispatched first; unless a listener prevents it, CLOSING
\* is emitted (DropdownAdapter.close), then CLOSE
\* SearchBox.clear: the text is emptied, no input event is dispatched
SearchBox_clear(s) == [s EXCEPT !.searchValue = <<>>]

VanillaSmartSelect_close(s) ==
    IF ~s.isOpen THEN s
    ELSE LET s1 == emit(s, "vs:closing", 0)
         IN  IF "vs:closing" \in s.prevents THEN s1
             ELSE emit(update(emit(SearchBox_clear(
                                       [s1 EXCEPT !.isOpen = FALSE]),
                                   "closing", 0), <<>>),
                       "close", 0)

\* an open that does not look at what the vs:opening listeners decided
VanillaSmartSelect_open_deaf(s) ==
    IF s.isOpen THEN s
    ELSE emit(emit([emit(s, "vs:opening", 0) EXCEPT !.isOpen = TRUE],
                   "opening", 0),
              "open", 0)

\* VanillaSmartSelect.open -> DropdownAdapter.open: vs:opening is dispatched
\* first; unless a listener prevents it, OPENING is emitted
\* (DropdownAdapter.open), then OPEN
VanillaSmartSelect_open(s) ==
    IF s.isDisabled \/ s.isOpen THEN s
    ELSE LET s1 == emit(s, "vs:opening", 0)
         IN  IF "vs:opening" \in s.prevents THEN s1
             ELSE emit(emit([s1 EXCEPT !.isOpen = TRUE], "opening", 0),
                       "open", 0)

\* a selectItem that refreshes the list with the term it had
selectItem_keepTerm(s, item) ==
    LET s1 == DataAdapter_select(s, item)
    IN  IF s.options.multiple
        THEN IF s1.ret = "true" THEN update(s1, s.currentSearchTerm) ELSE s1
        ELSE IF s1.ret = "true" /\ s.options.closeOnSelect
             THEN VanillaSmartSelect_close(s1)
             ELSE s1

\* ResultsAdapter.selectItem
selectItem(s, item) ==
    LET s1 == DataAdapter_select(s, item)
    IN  IF s.options.multiple
        THEN IF s1.ret = "true"
             THEN update(SearchBox_clear(s1), <<>>)
             ELSE s1
        ELSE IF s1.ret = "true" /\ s.options.closeOnSelect
             THEN VanillaSmartSelect_close(s1)
             ELSE s1

\* ------------------------------------------------------------ public API
\* _findItemById (VanillaSmartSelect and DropdownAdapter carry the same
\* code): depth first, an item before its children, the first item whose
\* String(id) is String(id)
RECURSIVE _findItemById(_, _)
_findItemById(items, id) ==
    IF items = <<>> THEN NoItem
    ELSE LET item == Head(items)
             found == IF isGroup(item)
                      THEN _findItemById(item.children, id)
                      ELSE NoItem
         IN  IF String(item.id) = String(id) THEN item
             ELSE IF found # NoItem THEN found
             ELSE _findItemById(Tail(items), id)

\* VanillaSmartSelect.select
VanillaSmartSelect_select(s, id) ==
    LET item == _findItemById(s.data, id)
    IN  IF item # NoItem /\ ~item.disabled
        THEN DataAdapter_select(s, item)
        ELSE [s EXCEPT !.ret = "none"]

\* current.find((i) => i.id === id)
find(sel, id) ==
    LET hits == {i \in 1..Len(sel) : StrictEquals(sel[i].id, id)}
    IN  IF hits = {} THEN NoItem
        ELSE sel[CHOOSE i \in hits : \A j \in hits : i <= j]

\* VanillaSmartSelect.unselect
VanillaSmartSelect_unselect(s, id) ==
    LET item == find(s.selection, id)
    IN  IF s.options.multiple /\ item # NoItem
        THEN DataAdapter_unselect(s, item)
        ELSE s

\* a clear that does not look at what the vs:clearing listeners decided
VanillaSmartSelect_clear_deaf(s, prevented) ==
    emit(DataAdapter_clear(emit(emit(s, "vs:clearing", 0), "clearing", 0)),
         "clear", 0)

\* VanillaSmartSelect.clear; prevented: a vs:clearing listener called
\* preventDefault()
VanillaSmartSelect_clear(s, prevented) ==
    LET s1 == emit(s, "vs:clearing", 0)
    IN  IF prevented THEN s1
        ELSE emit(DataAdapter_clear(emit(s1, "clearing", 0)), "clear", 0)

RECURSIVE selectEach(_, _)
\* value.forEach((id) => this.select(id))
selectEach(s, ids) ==
    IF ids = <<>> THEN s
    ELSE selectEach(VanillaSmartSelect_select(s, Head(ids)), Tail(ids))

\* VanillaSmartSelect.val(value) for an array value.  In single mode the
\* array itself goes to select(), where String([x]) is String(x) and the
\* string of any other array is no item's id.
val(s, ids, prevented) ==
    IF ~s.options.multiple
    THEN IF Len(ids) = 1 THEN VanillaSmartSelect_select(s, ids[1]) ELSE s
    ELSE selectEach(VanillaSmartSelect_clear(s, prevented), ids)

\* the remove button of a selected choice: data-id is a string
SelectionAdapter_removeClick(s, choice) ==
    LET item == find(s.selection, String(choice.id))
    IN  IF item # NoItem THEN DataAdapter_unselect(s, item) ELSE s

\* -------------------------------------------------------- KeyboardManager
\* KeyboardManager._getFlatRenderedItems
_getFlatRenderedItems(s) == flatResults(s.resultsList)

\* KeyboardManager._countTotalItems
_countTotalItems(s) == Len(flatResults(s.resultsList))

\* the wrap-around of _navigate
wrapAround(newIndex, totalItems) ==
    IF newIndex < 0 THEN totalItems - 1
    ELSE IF newIndex >= totalItems THEN 0
    ELSE newIndex

RECURSIVE skipDisabled(_, _, _, _, _)
\* the while loop of _navigate: it ends on an entry that is not disabled
\* ("highlight"), or when it comes back to currentIndex ("return"); a loop
\* that has run totalItems times without ending repeats for ever ("hang")
skipDisabled(renderedItems, newIndex, direction, currentIndex, fuel) ==
    IF ~renderedItems[newIndex + 1].disabled
    THEN [how |-> "highlight", index |-> newIndex]
    ELSE IF fuel = 0 THEN [how |-> "hang", index |-> newIndex]
    ELSE LET next == wrapAround(newIndex + direction, Len(renderedItems))
         IN  IF next = currentIndex
             THEN [how |-> "return", index |-> next]
             ELSE skipDisabled(renderedItems, next, direction, currentIndex,
                               fuel - 1)

\* a _navigate that highlights the neighbour whether it is disabled or not
_navigate_noSkip(s, direction) ==
    LET totalItems == _countTotalItems(s)
    IN  IF totalItems = 0 THEN s
        ELSE highlight(s, wrapAround(s.highlightedIndex + direction,
                                     totalItems))

\* KeyboardManager._navigate
_navigate(s, direction) ==
    LET currentIndex == s.highlightedIndex
        totalItems == _countTotalItems(s)
        r == skipDisabled(_getFlatRenderedItems(s),
                          wrapAround(currentIndex + direction, totalItems),
                          direction, currentIndex, totalItems)
    IN  IF totalItems = 0 THEN s
        ELSE CASE r.how = "highlight" -> highlight(s, r.index)
               [] r.how = "return" -> s
               [] OTHER -> [s EXCEPT !.ended = "hang"]

\* the entries of the flat list that are not disabled, as 0-based indexes
enabledIndexes(s) ==
    {i \in 0..(_countTotalItems(s) - 1) :
        ~_getFlatRenderedItems(s)[i + 1].disabled}

\* KeyboardManager._navigateToFirst
_navigateToFirst(s) ==
    IF enabledIndexes(s) = {} THEN s
    ELSE highlight(s, CHOOSE i \in enabledIndexes(s) :
                          \A j \in enabledIndexes(s) : i <= j)

\* KeyboardManager._navigateToLast
_navigateToLast(s) ==
    IF enabledIndexes(s) = {} THEN s
    ELSE highlight(s, CHOOSE i \in enabledIndexes(s) :
                          \A j \in enabledIndexes(s) : i >= j)

\* --------------------------------------------------- the search input
\* the delay of DropdownAdapter._bindEvents:
\* ajaxConfig ? ajaxConfig.delay || 250 : options.get("searchDelay") || 0
delayOf(ajax, configured) ==
    IF ajax THEN (IF configured = 0 THEN 250 ELSE configured)
    ELSE configured

\* handleQuery: QUERY is emitted; the listener of ResultsAdapter, as long as
\* the instance has listeners, calls update(term)
handleQuery(s, term) ==
    LET s1 == emit(s, "query", 0)
    IN  IF s.destroyed THEN s1 ELSE update(s1, term)

\* clearTimeout(timeout) of debounce: timeout names the timer set last
clearLast(pending) ==
    IF pending = <<>> THEN <<>> ELSE SubSeq(pending, 1, Len(pending) - 1)

\* the debounced function setting its timer without clearing the last
debounced_noClear(s, term) ==
    [s EXCEPT !.debounceTimers = Append(@, term)]

\* the function debounce(func, wait) returns, immediate being false:
\* clearTimeout(timeout); timeout = setTimeout(later, wait)
debounced(s, term) ==
    [s EXCEPT !.debounceTimers = Append(clearLast(@), term)]

\* later() of the i-th pending timer: timeout = null; func(args)
later(s, i) ==
    handleQuery([s EXCEPT !.debounceTimers =
                     SubSeq(@, 1, i - 1) \o SubSeq(@, i + 1, Len(@))],
                s.debounceTimers[i])

\* queryHandler: searchDelay > 0 ? debounce(handleQuery, searchDelay)
\*                               : handleQuery
queryHandler(s, term) ==
    IF s.searchDelay > 0 THEN debounced(s, term) ELSE handleQuery(s, term)

\* ---------------------------------------------------------------- destroy
\* DataAdapter.destroy
DataAdapter_destroy(s) == [s EXCEPT !.data = <<>>, !.selection = <<>>]

\* AjaxAdapter.destroy: the pending request is told to abort, the cache is
\* cleared; abort is not a function on the plain promise of a custom
\* transport
AjaxAdapter_destroy(s) ==
    IF s.currentRequest # 0 /\ s.options.transport = "custom"
    THEN [s EXCEPT !.ended = "throw"]
    ELSE [(IF s.currentRequest # 0 THEN abort(s) ELSE s)
             EXCEPT !.currentRequest = 0, !.cache = {}]

\* ResultsAdapter.destroy leaving its timers alone
ResultsAdapter_destroy_keepTimers(s) ==
    [s EXCEPT !.resultsList = <<>>, !.highlightedIndex = -1,
              !.errorShown = FALSE]

\* ResultsAdapter.destroy: the three timers are cleared; ResultsList.destroy
\* clears the list and drops the container
ResultsAdapter_destroy(s) ==
    LET s1 == IF s.loadMoreTimeout
              THEN [clearTimeout(s, "loadMore") EXCEPT
                        !.loadMoreTimeout = FALSE]
              ELSE s
        s2 == IF s1.limitMessageTimeout
              THEN [clearTimeout(s1, "limitMessage") EXCEPT
                        !.limitMessageTimeout = FALSE]
              ELSE s1
        s3 == IF s2.errorMessageTimeout
              THEN [clearTimeout(s2, "errorMessage") EXCEPT
                        !.errorMessageTimeout = FALSE]
              ELSE s2
    IN  [s3 EXCEPT !.resultsList = <<>>, !.highlightedIndex = -1,
                   !.errorShown = FALSE]

\* VanillaSmartSelect.destroy without its test of _isInitialized
VanillaSmartSelect_destroy_again(s) ==
         LET s1 == emit(s, "destroy", 0)
             s2 == IF s1.isOpen THEN VanillaSmartSelect_close(s1) ELSE s1
             s3 == IF s2.options.ajax
                   THEN AjaxAdapter_destroy(DataAdapter_destroy(s2))
                   ELSE DataAdapter_destroy(s2)
         IN  IF /\ s2.options.ajax
                /\ s2.currentRequest # 0
                /\ s2.options.transport = "custom"
             THEN s3
             ELSE [ResultsAdapter_destroy([s3 EXCEPT !.isOpen = FALSE])
                      EXCEPT !.destroyed = TRUE, !.registered = FALSE]

\* VanillaSmartSelect.destroy: DESTROY, close() if open, the adapters'
\* destroy in turn (Dropdown.destroy sets isOpen), removeAllListeners,
\* _isInitialized = false
VanillaSmartSelect_destroy(s) ==
    IF s.destroyed THEN s
    ELSE LET s1 == emit(s, "destroy", 0)
             s2 == IF s1.isOpen THEN VanillaSmartSelect_close(s1) ELSE s1
             s3 == IF s2.options.ajax
                   THEN AjaxAdapter_destroy(DataAdapter_destroy(s2))
                   ELSE DataAdapter_destroy(s2)
         IN  IF /\ s2.options.ajax
                /\ s2.currentRequest # 0
                /\ s2.options.transport = "custom"
             THEN s3
             ELSE [ResultsAdapter_destroy([s3 EXCEPT !.isOpen = FALSE])
                      EXCEPT !.destroyed = TRUE, !.registered = FALSE]

\* --------------------------------------------------------------- actions
\* A promise that is already resolved (a cache hit) runs its callback as a
\* microtask: before any other event, oldest first.
NoMicrotask == \A r \in inflight : ~r.cached

\* the run may still issue k searches
Budget(k) == nextToken + k - 1 <= MaxToken

\* the ids the public API is called with: those of the known items, as a
\* number and as a string
ArgIds ==
    LET known == {data[i].id.v : i \in 1..Len(data)}
                     \cup {selection[i].id.v : i \in 1..Len(selection)}
    IN  {NumId(v) : v \in known} \cup {StrId(v) : v \in known}

Range(seq) == {seq[i] : i \in 1..Len(seq)}

\* the QUERY listener of ResultsAdapter: the debounced input fires
OnQuery(term) ==
    /\ ~destroyed
    /\ options.ajax
    /\ NoMicrotask
    /\ Budget(1)
    /\ Commit([update(Begin, term) EXCEPT
            !.call = Called("query", NoId, term, NoItem, NoRequest,
                            EmptyResponse)])

\* scroll near the bottom, or loadMore() called
LoadMore ==
    /\ ~destroyed
    /\ options.ajax
    /\ hasMore
    /\ ~isLoadingMore
    /\ NoMicrotask
    /\ Budget(1)
    /\ currentPage < MaxPage
    /\ Commit([loadMore(Begin) EXCEPT
            !.call = Called("loadMore", NoId, currentSearchTerm, NoItem,
                            NoRequest, EmptyResponse)])

\* the 500 ms timer of loadMore fires
LoadMoreTimer ==
    /\ timers.loadMore > 0
    /\ NoMicrotask
    /\ Commit([Begin EXCEPT !.isLoadingMore = FALSE,
                          !.loadMoreTimeout = FALSE,
                          !.timers.loadMore = @ - 1,
                          !.call = Called("loadMoreTimer", NoId, <<>>, NoItem,
                                          NoRequest, EmptyResponse)])

\* the 5 s timer of showError fires: the message is removed
ErrorTimer ==
    /\ timers.errorMessage > 0
    /\ NoMicrotask
    /\ Commit([Begin EXCEPT !.errorShown = FALSE,
                            !.errorMessageTimeout = FALSE,
                            !.timers.errorMessage = @ - 1,
                            !.call = Called("errorTimer", NoId, <<>>, NoItem,
                                            NoRequest, EmptyResponse)])

\* the 3 s timer of _showLimitMessage fires: the message is removed
LimitTimer ==
    /\ timers.limitMessage > 0
    /\ NoMicrotask
    /\ Commit([Begin EXCEPT !.limitMessageTimeout = FALSE,
                            !.timers.limitMessage = @ - 1,
                            !.call = Called("limitTimer", NoId, <<>>, NoItem,
                                            NoRequest, EmptyResponse)])

\* _inputHandler: an input event on the search box, its value being term
Input(term) ==
    /\ ~destroyed
    /\ NoMicrotask
    /\ Budget(1)
    /\ debounceTimers # <<>> => Len(burst) < MaxBurst
    /\ Commit([queryHandler([Begin EXCEPT
                                !.searchValue = term,
                                !.burst = IF debounceTimers = <<>>
                                          THEN <<term>>
                                          ELSE Append(@, term)], term) EXCEPT
            !.call = Called("input", NoId, term, NoItem, NoRequest,
                            EmptyResponse)])

\* a timer of debounce fires
DebounceTimer ==
    \E i \in 1..Len(debounceTimers) :
        /\ NoMicrotask
        /\ Budget(1)
        /\ Commit([later(Begin, i) EXCEPT
               !.call = Called("debounceTimer", NoId, debounceTimers[i],
                               NoItem, NoRequest, EmptyResponse)])

\* destroy() of the public API
Destroy ==
    /\ NoMicrotask
    /\ Budget(1)
    /\ Commit([VanillaSmartSelect_destroy(Begin) EXCEPT
            !.call = Called("destroy", NoId, <<>>, NoItem, NoRequest,
                            EmptyResponse)])

\* how a promise of query() can settle: a cache hit resolves to the cached
\* value; a transport request succeeds or fails; a request told to abort
\* rejects with AbortError, unless the transport had already delivered
Outcomes(req) ==
    IF req.cached THEN {"ok"}
    ELSE IF req.aborted THEN {"ok", "error", "abort"}
    ELSE {"ok", "error"}

\* the promise of request req settles: AjaxAdapter's callback runs, then the
\* coordinator's
Settle(req, outcome) ==
    /\ req \in inflight
    /\ outcome \in Outcomes(req)
    /\ IF req.cached
       THEN \A r \in inflight : r.cached => req.token <= r.token
       ELSE NoMicrotask
    /\ LET s0 == [Begin EXCEPT !.inflight = @ \ {req}]
           s1 == IF req.cached THEN s0
                 ELSE IF outcome = "ok" THEN AjaxAdapter_then(s0, req)
                 ELSE AjaxAdapter_catch(s0, req, outcome = "abort")
           resp == IF req.cached THEN req.value
                   ELSE IF outcome = "ok" THEN normalizedResults(req)
                   ELSE EmptyResponse
       IN  Commit([_updateWithAjax_then(s1, req, resp) EXCEPT
               !.call = [Called("response", NoId, req.term, NoItem, req,
                                resp) EXCEPT !.how = outcome]])

\* select(id) of the public API
ApiSelect(id) ==
    /\ ~destroyed
    /\ NoMicrotask
    /\ Budget(1)
    /\ LET item == _findItemById(data, id)
       IN  Commit([VanillaSmartSelect_select(Begin, id) EXCEPT
               !.call = Called("select", id, <<>>,
                               IF item # NoItem /\ ~item.disabled
                               THEN item ELSE NoItem,
                               NoRequest, EmptyResponse)])

\* unselect(id) of the public API
ApiUnselect(id) ==
    /\ ~destroyed
    /\ NoMicrotask
    /\ Budget(1)
    /\ Commit([VanillaSmartSelect_unselect(Begin, id) EXCEPT
            !.call = Called("unselect", id, <<>>,
                            IF options.multiple THEN find(selection, id)
                            ELSE NoItem,
                            NoRequest, EmptyResponse)])

\* clear() of the public API
ApiClear(prevented) ==
    /\ ~destroyed
    /\ NoMicrotask
    /\ Commit([VanillaSmartSelect_clear(Begin, prevented) EXCEPT
            !.call = Called(IF prevented THEN "clearPrevented" ELSE "clear",
                            NoId, <<>>,
                            IF selection = <<>> THEN NoItem
                            ELSE selection[1],
                            NoRequest, EmptyResponse)])

\* val([...]) of the public API
Val(ids, prevented) ==
    /\ ~destroyed
    /\ NoMicrotask
    /\ Budget(Len(ids))
    /\ Commit([val(Begin, ids, prevented) EXCEPT
            !.call = Called("val", NoId, <<>>, NoItem, NoRequest,
                            EmptyResponse)])

\* a click on a result that is not disabled, or Enter on the highlighted
\* result
SelectItem(item) ==
    /\ ~destroyed
    /\ isOpen
    /\ item \in Range(resultsList)
    /\ NoMicrotask
    /\ Budget(2)
    /\ Commit([selectItem(Begin, item) EXCEPT
            !.call = Called("selectItem", NoId, currentSearchTerm, item,
                            NoRequest, EmptyResponse)])

\* a click on the remove button of a selected choice
RemoveClick(choice) ==
    /\ ~destroyed
    /\ choice \in Range(selection)
    /\ NoMicrotask
    /\ Budget(1)
    /\ Commit([SelectionAdapter_removeClick(Begin, choice) EXCEPT
            !.call = Called("removeClick", NoId, <<>>,
                            find(selection, String(choice.id)),
                            NoRequest, EmptyResponse)])

\* open()
Open ==
    /\ ~destroyed
    /\ ~isOpen
    /\ NoMicrotask
    /\ Commit([VanillaSmartSelect_open(Begin) EXCEPT
            !.call = Called("open", NoId, <<>>, NoItem, NoRequest,
                            EmptyResponse)])

\* close(), Escape, or a click outside
Close ==
    /\ ~destroyed
    /\ isOpen
    /\ NoMicrotask
    /\ Budget(1)
    /\ Commit([VanillaSmartSelect_close(Begin) EXCEPT
            !.call = Called("close", NoId, <<>>, NoItem, NoRequest,
                            EmptyResponse)])

\* open() of the public API, on a closed or on an open dropdown
ApiOpen ==
    /\ ~destroyed
    /\ NoMicrotask
    /\ Budget(1)
    /\ Commit([VanillaSmartSelect_open(Begin) EXCEPT
            !.call = Called("open", NoId, <<>>, NoItem, NoRequest,
                            EmptyResponse)])

\* close() of the public API, on an open or on a closed dropdown
ApiClose ==
    /\ ~destroyed
    /\ NoMicrotask
    /\ Budget(1)
    /\ Commit([VanillaSmartSelect_close(Begin) EXCEPT
            !.call = Called("close", NoId, <<>>, NoItem, NoRequest,
                            EmptyResponse)])

\* the search box's input event without ajax: QUERY, then
\* ResultsAdapter.update(term)
OnQueryLocal(term) ==
    /\ ~destroyed
    /\ ~options.ajax
    /\ ended # "hang"
    /\ Commit([update(Begin, term) EXCEPT
            !.call = Called("query", NoId, term, NoItem, NoRequest,
                            EmptyResponse)])

\* the index that was highlighted when a key was pressed
FromIndex(index) == [k |-> "index", v |-> index]

\* ArrowDown (direction 1) or ArrowUp (direction -1) in the search box
Navigate(direction) ==
    /\ ~destroyed
    /\ ended # "hang"
    /\ Commit([_navigate(Begin, direction) EXCEPT
            !.call = Called(IF direction = 1 THEN "down" ELSE "up",
                            FromIndex(highlightedIndex),
                            <<>>, NoItem, NoRequest, EmptyResponse)])

\* Home in the search box
NavigateToFirst ==
    /\ ~destroyed
    /\ ended # "hang"
    /\ Commit([_navigateToFirst(Begin) EXCEPT
            !.call = Called("home", NoId, <<>>, NoItem, NoRequest,
                            EmptyResponse)])

\* End in the search box
NavigateToLast ==
    /\ ~destroyed
    /\ ended # "hang"
    /\ Commit([_navigateToLast(Begin) EXCEPT
            !.call = Called("end", NoId, <<>>, NoItem, NoRequest,
                            EmptyResponse)])

\* the mouse moves over the rendered entry with this data-index
Mouseover(index) ==
    /\ ~destroyed
    /\ ended # "hang"
    /\ Commit([highlight(Begin, index) EXCEPT
            !.call = Called("mouseover", NoId, <<>>, NoItem, NoRequest,
                            EmptyResponse)])

\* ------------------------------------------------------------ initial states
\* the host element: options "1" .. "MaxId", the even ones disabled, those in
\* checked selected
HostElement(checked) ==
    [i \in 1..MaxId |->
        [value |-> StrId(i), disabled |-> (i % 2 = 0),
         selected |-> (i \in checked)]]

\* options.data: the same items with numeric ids
OptionsData == [i \in 1..MaxId |-> Item(NumId(i), i % 2 = 0)]

\* the fields before any adapter is constructed
Fresh(opts, el) ==
    [_events |-> <<>>, invoked |-> <<>>, isDisabled |-> FALSE, searchValue |-> <<>>, registered |-> TRUE, burst |-> <<>>, debounceTimers |-> <<>>, searchDelay |-> 0, timers |-> [limitMessage |-> 0, errorMessage |-> 0, loadMore |-> 0], limitMessageTimeout |-> FALSE, errorMessageTimeout |-> FALSE, destroyed |-> FALSE, prevents |-> {}, options |-> opts, element |-> el, data |-> <<>>, selection |-> <<>>,
     currentSearchTerm |-> <<>>, currentPage |-> 1, hasMore |-> FALSE,
     isLoadingMore |-> FALSE, accumulatedResults |-> <<>>,
     currentSearchToken |-> 0, loadMoreTimeout |-> FALSE,
     resultsList |-> <<>>, isOpen |-> FALSE, currentRequest |-> 0,
     cache |-> {}, inflight |-> {}, nextToken |-> 1,
     lastAccepted |-> NoAccepted, call |-> NoCall, ret |-> "none",
     highlightedIndex |-> -1, errorShown |-> FALSE, events |-> <<>>,
     ended |-> "ok"]

\* DataAdapter.init, then ResultsAdapter.bind, which ends with update()
\* AjaxAdapter.constructor: the only configuration it rejects is a missing
\* ajax option; url defaults to "", transport to null
AjaxAdapter_constructor(s) ==
    IF ~s.options.ajax THEN [s EXCEPT !.ended = "throw"] ELSE s

Constructed(opts, el, fromData) ==
    LET s0 == IF opts.ajax THEN AjaxAdapter_constructor(Fresh(opts, el))
              ELSE Fresh(opts, el)
        s1 == IF fromData THEN setData(s0, OptionsData)
              ELSE [s0 EXCEPT !.data = loadFromElement(el)]
        s2 == [s1 EXCEPT !.selection = loadInitialSelection(el)]
    IN  update(s2, <<>>)

\* a widget without ajax, over a host element with options; a host element
\* that is not multiple has at most one option checked
InitSel ==
    \E multiple \in BOOLEAN, max \in 0..MaxSel, fromData \in BOOLEAN,
       checked \in SUBSET (1..MaxId) :
        /\ multiple \/ Cardinality(checked) <= 1
        /\ Is(Constructed([multiple |-> multiple,
                           maximumSelectionLength |-> max,
                           closeOnSelect |-> TRUE, searchMinimumLength |-> 0,
                        tags |-> FALSE, matchStrategy |-> "contains",
                           ajax |-> FALSE, cache |-> FALSE,
                           transport |-> "default"],
                          HostElement(checked), fromData))

\* a widget with ajax over an empty host element
Init ==
    \E multiple \in BOOLEAN, cacheOn \in BOOLEAN :
        Is(Constructed([multiple |-> multiple, maximumSelectionLength |-> 0,
                        closeOnSelect |-> TRUE, searchMinimumLength |-> 0,
                        tags |-> FALSE, matchStrategy |-> "contains",
                        ajax |-> TRUE, cache |-> cacheOn,
                        transport |-> "default"],
                       <<>>, FALSE))

\* a widget with ajax over an empty host element, its ajax option with a
\* url ("default") or with neither url nor transport ("nourl": the built-in
\* transport fetches the url "")
InitConfig ==
    \E multiple \in BOOLEAN, endpoint \in {"default", "nourl"} :
        Is(Constructed([multiple |-> multiple, maximumSelectionLength |-> 0,
                        closeOnSelect |-> TRUE, searchMinimumLength |-> 0,
                        tags |-> FALSE, matchStrategy |-> "contains",
                        ajax |-> TRUE, cache |-> FALSE,
                        transport |-> endpoint],
                       <<>>, FALSE))

\* a widget with ajax whose ajax.transport returns a plain promise, as the
\* README's example does: fetch(...).then(r => r.json())
InitTransport ==
    \E multiple \in BOOLEAN, cacheOn \in BOOLEAN :
        Is(Constructed([multiple |-> multiple, maximumSelectionLength |-> 0,
                        closeOnSelect |-> TRUE, searchMinimumLength |-> 0,
                        tags |-> FALSE, matchStrategy |-> "contains",
                        ajax |-> TRUE, cache |-> cacheOn,
                        transport |-> "custom"],
                       <<>>, FALSE))

\* --------------------------------------------------------- specifications
Next ==
    \/ \E term \in Terms : OnQuery(term)
    \/ LoadMore
    \/ LoadMoreTimer
    \/ ErrorTimer
    \/ \E req \in inflight, outcome \in {"ok", "error", "abort"} :
          Settle(req, outcome)
    \/ \E id \in ArgIds : ApiSelect(id)
    \/ \E id \in ArgIds : ApiUnselect(id)
    \/ \E item \in Range(resultsList) : SelectItem(item)
    \/ Open
    \/ Close

Spec == Init /\ [][Next]_vars

SpecTransport == InitTransport /\ [][Next]_vars

SpecConfig == InitConfig /\ [][Next]_vars

\* a widget with ajax and a selection limit over a host element with
\* options, from construction to destroy()
InitLife ==
    \E cacheOn \in BOOLEAN, checked \in {{}, {1}} :
        Is(Constructed([multiple |-> TRUE, maximumSelectionLength |-> 1,
                        closeOnSelect |-> TRUE, searchMinimumLength |-> 0,
                        tags |-> FALSE, matchStrategy |-> "contains",
                        ajax |-> TRUE, cache |-> cacheOn,
                        transport |-> "default"],
                       HostElement(checked), FALSE))

NextLife ==
    \/ \E term \in Terms : OnQuery(term)
    \/ LoadMore
    \/ LoadMoreTimer
    \/ ErrorTimer
    \/ LimitTimer
    \/ \E req \in inflight, outcome \in {"ok", "error", "abort"} :
          Settle(req, outcome)
    \/ \E id \in ArgIds : ApiSelect(id)
    \/ \E item \in Range(resultsList) : SelectItem(item)
    \/ Open
    \/ Close
    \/ Destroy

SpecLife == InitLife /\ [][NextLife]_vars

IdSeqs == {<<>>} \cup {<<a>> : a \in Ids} \cup {<<a, b>> : a, b \in Ids}

NextSel ==
    \/ \E id \in ArgIds : ApiSelect(id)
    \/ \E id \in ArgIds : ApiUnselect(id)
    \/ \E prevented \in BOOLEAN : ApiClear(prevented)
    \/ \E ids \in IdSeqs, prevented \in BOOLEAN : Val(ids, prevented)
    \/ \E item \in Range(resultsList) : SelectItem(item)
    \/ \E choice \in Range(selection) : RemoveClick(choice)
    \/ Open
    \/ Close
    \/ LimitTimer

SpecSel == InitSel /\ [][NextSel]_vars

\* an item of options.data with a text; an id of NoId is an item without id
TextItem(id, text, disabled) ==
    [id |-> id, text |-> text, disabled |-> disabled]

\* a group of options.data: no id, a label and children
Group(text, children) ==
    [id |-> NoId, text |-> text, disabled |-> FALSE, children |-> children]

StrOf(text) == [k |-> "str", v |-> text]

\* the items options.data is drawn from
ItemPool ==
    { TextItem(StrOf(<<"A">>), <<"A", "b">>, FALSE),
      TextItem(NoId, <<"a'">>, FALSE),
      TextItem(NoId, <<"b">>, TRUE),
      Group(<<"b">>, << TextItem(StrOf(<<"a">>), <<"a">>, FALSE),
                        TextItem(StrOf(<<"a", "b">>), <<"a", "b">>, FALSE) >>),
      Group(<<"A">>, << TextItem(StrOf(<<"b">>), <<"b">>, TRUE),
                        TextItem(NoId, <<"b", "a'">>, FALSE) >>) }

RECURSIVE SeqsUpTo(_, _)
\* the sequences over S of length at most n
SeqsUpTo(S, n) ==
    IF n = 0 THEN {<<>>}
    ELSE LET shorter == SeqsUpTo(S, n - 1)
         IN  shorter \cup {Append(q, x) : q \in shorter, x \in S}

\* what is typed into the search box
SearchTerms ==
    {<<>>, <<" ">>, <<"a">>, <<"A">>, <<"a'">>, <<"b">>, <<"a", "b">>,
     <<" ", "a">>}

\* a widget without ajax over an empty host element, its items given by
\* options.data
InitSearch ==
    \E tags \in BOOLEAN, matchStrategy \in {"startsWith", "exact", "contains"},
       items \in SeqsUpTo(ItemPool, MaxItems) :
        LET opts == [multiple |-> FALSE, maximumSelectionLength |-> 0,
                     closeOnSelect |-> TRUE, searchMinimumLength |-> 0,
                     tags |-> tags, matchStrategy |-> matchStrategy,
                     ajax |-> FALSE, cache |-> FALSE,
                     transport |-> "default"]
        IN  Is(update(setData(Fresh(opts, <<>>), items), <<>>))

NextSearch ==
    \/ \E term \in SearchTerms : OnQueryLocal(term)
    \/ \E direction \in {-1, 1} : Navigate(direction)
    \/ NavigateToFirst
    \/ NavigateToLast
    \/ \E index \in 0..(Len(flatResults(resultsList)) - 1) : Mouseover(index)

SpecSearch == InitSearch /\ [][NextSearch]_vars

\* options.data of the widget the user works with
UseData ==
    << TextItem(StrOf(<<"a">>), <<"a">>, FALSE),
       TextItem(NoId, <<"a", "b">>, FALSE),
       TextItem(StrOf(<<"b">>), <<"b">>, TRUE) >>

\* the listeners of cancelable events the page may have on the host element
Preventing ==
    SUBSET {"vs:opening", "vs:closing"}
        \cup {{"vs:selecting", "vs:unselecting"}}

\* a widget without ajax over an empty host element, its items given by
\* options.data, with listeners that prevent some cancelable events
InitUse ==
    \E multiple \in BOOLEAN, max \in {0, 1}, closeOnSelect \in BOOLEAN,
       searchMinimumLength \in {0, 2}, listeners \in Preventing :
        LET opts == [multiple |-> multiple, maximumSelectionLength |-> max,
                     closeOnSelect |-> closeOnSelect,
                     searchMinimumLength |-> searchMinimumLength,
                     tags |-> FALSE, matchStrategy |-> "contains",
                     ajax |-> FALSE, cache |-> FALSE,
                     transport |-> "default"]
        IN  Is(update(setData([Fresh(opts, <<>>) EXCEPT
                                   !.prevents = listeners], UseData), <<>>))

NextUse ==
    \/ \E term \in Terms : OnQueryLocal(term)
    \/ ApiOpen
    \/ ApiClose
    \/ \E item \in Range(resultsList) : SelectItem(item)
    \/ \E i \in 1..Len(data) : ApiSelect(data[i].id)
    \/ \E i \in 1..Len(data) : ApiUnselect(data[i].id)
    \/ \E prevented \in BOOLEAN : ApiClear(prevented)
    \/ \E choice \in Range(selection) : RemoveClick(choice)
    \/ LimitTimer

SpecUse == InitUse /\ [][NextUse]_vars

\* the values typed into the search box
InputTerms == {<<>>, <<"a">>}

\* the delays a widget is configured with (ajax.delay, or searchDelay)
Delays == {0, 100}

\* a widget with a search box, local over options.data or remote, with the
\* delay and the minimum length it is configured with
InitInput ==
    \E ajax \in BOOLEAN, configured \in Delays, min \in {0, 2} :
        LET opts == [multiple |-> FALSE, maximumSelectionLength |-> 0,
                     closeOnSelect |-> TRUE, searchMinimumLength |-> min,
                     tags |-> FALSE, matchStrategy |-> "contains",
                     ajax |-> ajax, cache |-> FALSE,
                     transport |-> "default"]
            s0 == [Fresh(opts, <<>>) EXCEPT
                       !.searchDelay = delayOf(ajax, configured)]
        IN  Is(update(IF ajax THEN s0 ELSE setData(s0, UseData), <<>>))

NextInput ==
    \/ \E term \in InputTerms : Input(term)
    \/ DebounceTimer
    \/ \E req \in inflight, outcome \in {"ok", "error", "abort"} :
          Settle(req, outcome)
    \/ Destroy

SpecInput == InitInput /\ [][NextInput]_vars

\* ------------------------------------------------------ claims, remote
\* the token of the search issued last
LatestToken == nextToken - 1

\* the promise of the search issued last has settled
LatestSettled == \A r \in inflight : r.token # LatestToken

\* this step settled a promise and the coordinator applied what it resolved to
AcceptStep ==
    /\ call'.op = "response"
    /\ call'.req.token = currentSearchToken

\* C1: of two searches A then B only B's response is ever applied once B
\* is issued, in whatever order the two promises settle (B may be a cache
\* hit): a step that changes what is displayed or accumulated applies the
\* response of the search issued last, and once that search has settled
\* the accumulated and displayed results are what it resolved to.
C1_Supersession ==
    /\ [][(call'.op = "response"
            /\ <<accumulatedResults, resultsList, data, hasMore>>'
                 # <<accumulatedResults, resultsList, data, hasMore>>)
          => call'.req.token = LatestToken]_vars
    /\ [](LatestSettled =>
            /\ lastAccepted.token = LatestToken
            /\ lastAccepted.term = currentSearchTerm
            /\ resultsList = accumulatedResults
            /\ ~lastAccepted.append =>
                 /\ accumulatedResults = lastAccepted.results
                 /\ accumulatedResults \in
                      {<<>>,
                       ServerResponse(currentSearchTerm, currentPage).results})

\* A's response settles after B's was applied, and B's results stay displayed
C1_Witness ==
    /\ call.op = "response"
    /\ call.req.token < lastAccepted.token
    /\ lastAccepted.token = LatestToken
    /\ call.resp.results # <<>>
    /\ resultsList # <<>>
    /\ resultsList # call.resp.results
    /\ resultsList = lastAccepted.results

\* C2: a response whose token is not the current search token changes
\* neither currentSearchTerm, currentPage, hasMore, accumulatedResults, the
\* item store's data nor the displayed list; and a search whose response was
\* accepted has no promise left that could be accepted again.
C2_StaleResponseFrame ==
    [][call'.op = "response" =>
        /\ call'.req.token # currentSearchToken =>
             UNCHANGED <<currentSearchTerm, currentPage, hasMore,
                         accumulatedResults, data, resultsList,
                         lastAccepted>>
        /\ \A r \in inflight' : r.token # call'.req.token]_vars

\* a superseded search resolved to a non-empty page and nothing changed
C2_Witness ==
    /\ call.op = "response"
    /\ call.req.token # currentSearchToken
    /\ call.resp.results # <<>>
    /\ call.resp.more
    /\ ~hasMore
    /\ lastAccepted.token # call.req.token

\* C3: a request sent for a term other than currentSearchTerm is a request
\* for page 1, sent with currentPage 1 and accumulatedResults empty.
C3_ResetOnTermChange ==
    [][\A r \in inflight' :
          r.token >= nextToken /\ r.term # currentSearchTerm =>
            /\ r.page = 1
            /\ ~r.append
            /\ currentPage' = 1
            /\ accumulatedResults' = <<>>]_vars

\* the term changed after page 2 had been accumulated
C3_Witness ==
    /\ call.op = "query"
    /\ lastAccepted.page > 1
    /\ Len(lastAccepted.results) > 0
    /\ lastAccepted.term # currentSearchTerm
    /\ currentPage = 1
    /\ accumulatedResults = <<>>
    /\ \E r \in inflight : r.token = currentSearchToken /\ r.page = 1

\* C4: loadMore sends a request for a page > 1 of the current term only if
\* the response accepted last was for that term and reported more = true.
C4_TermScopedPagination ==
    [][call'.op = "loadMore" =>
        /\ lastAccepted.token # 0
        /\ lastAccepted.term = currentSearchTerm
        /\ lastAccepted.more]_vars

\* C5: an accepted response for page 1 replaces accumulatedResults, an
\* accepted response for a page > 1 is appended to it, and hasMore becomes
\* the response's more flag.
C5_ReplaceThenAppend ==
    [][AcceptStep =>
        /\ call'.req.page = 1 =>
             accumulatedResults' = call'.resp.results
        /\ call'.req.page > 1 =>
             accumulatedResults' = accumulatedResults \o call'.resp.results
        /\ hasMore' = call'.resp.more]_vars

\* C6: while the request of a loadMore is the current search and has not
\* settled, isLoadingMore is set; and loadMore never sends page N+1 while
\* the current request for page N is pending.
C6_LoadMoreGate ==
    /\ [](\A r \in inflight :
            r.append /\ r.token = currentSearchToken => isLoadingMore)
    /\ [][call'.op = "loadMore" =>
            ~\E r \in inflight :
                r.token = currentSearchToken /\ r.page = currentPage]_vars

\* ------------------------------------------------- claims, the item store
\* this step called DataAdapter.select with call'.item
SelectStep ==
    /\ call'.op \in {"select", "selectItem"}
    /\ call'.item # NoItem

\* two ids that String() maps to the same string
SameString(a, b) == String(a) = String(b)

\* C7: in single mode the selection never holds more than one item, and
\* select(item) returns true and leaves exactly [item] selected.
C7_SingleSelect ==
    /\ [](~options.multiple => Len(selection) <= 1)
    /\ [][~options.multiple /\ SelectStep =>
            ret' = "true" /\ selection' = <<call'.item>>]_vars

\* single mode: select(id) was called for an item of a host element that
\* had an option checked at construction, and the item is the selection and
\* the host element's only checked option
C7_Witness ==
    /\ ~options.multiple
    /\ call.op = "select"
    /\ call.id.k = "num"
    /\ ret = "true"
    /\ selection = <<call.item>>
    /\ \A i \in 1..Len(element) :
          element[i].selected <=> element[i].value = call.item.id

\* C8: in multiple mode with maximumSelectionLength N > 0 the selection
\* never holds more than N items, a select of a new id at N items returns
\* false and changes nothing, and with N = 0 no select of a new id fails.
C8_SelectionLimit ==
    /\ [](options.multiple /\ options.maximumSelectionLength > 0 =>
            Len(selection) <= options.maximumSelectionLength)
    /\ [][options.multiple /\ SelectStep
            /\ ~exists(selection, call'.item) =>
            IF options.maximumSelectionLength > 0
                /\ Len(selection) >= options.maximumSelectionLength
            THEN ret' = "false" /\ selection' = selection
            ELSE ret' = "true"]_vars

\* C9: in multiple mode select(item) of an id that is in the selection
\* returns false and leaves the selection as it is, so no two entries of
\* the selection have the same id.
C9_DuplicateSelect ==
    /\ [][options.multiple /\ SelectStep /\ exists(selection, call'.item)
            => ret' = "false" /\ selection' = selection]_vars
    /\ [](\A i, j \in 1..Len(selection) :
            StrictEquals(selection[i].id, selection[j].id) => i = j)

\* multiple mode without a limit: a selected item was selected again
C9_Witness ==
    /\ options.multiple
    /\ options.maximumSelectionLength = 0
    /\ call.op = "selectItem"
    /\ ret = "false"
    /\ Len(selection) > 1
    /\ exists(selection, call.item)

\* C10: ids are compared as strings: in multiple mode a select of b while
\* a with String(a) = String(b) is selected returns false and adds no
\* entry, and unselect(b) removes the entry a.
C10_StringIdentity ==
    /\ [][options.multiple /\ SelectStep
            /\ (\E i \in 1..Len(selection) :
                  SameString(selection[i].id, call'.item.id))
            => ret' = "false" /\ selection' = selection]_vars
    /\ [][options.multiple /\ call'.op = "unselect" =>
            \A i \in 1..Len(selection') :
                ~SameString(selection'[i].id, call'.id)]_vars

\* ------------------------------------------------ claims, notifications
\* the last handler emitted the event name
Emitted(name) == \E i \in 1..Len(events) : events[i].name = name

\* the events of that name the last handler emitted
EventsNamed(name) == SelectSeq(events, LAMBDA e : e.name = name)

\* C11: a step that calls DataAdapter.select once emits
\* selectionLimitReached, once and with maximum = N, if it is in multiple
\* mode with maximumSelectionLength = N > 0 for an id that is not selected
\* while N or more items are, and then returns false; for a duplicate, for
\* a select that succeeds and in a step that calls no select it is not
\* emitted.  (val([...]) calls select once per id: each of its
\* notifications carries maximum = N > 0.)
C11_LimitNotification ==
    [][IF call'.op = "val"
       THEN \A i \in 1..Len(events') :
              events'[i].name = "selectionLimitReached" =>
                /\ options.multiple
                /\ options.maximumSelectionLength > 0
                /\ events'[i].n = options.maximumSelectionLength
       ELSE IF /\ call'.op \in {"select", "selectItem"}
               /\ call'.item # NoItem
               /\ options.multiple
               /\ options.maximumSelectionLength > 0
               /\ ~exists(selection, call'.item)
               /\ Len(selection) >= options.maximumSelectionLength
       THEN /\ EventsNamed("selectionLimitReached")' =
                 <<Event("selectionLimitReached",
                         options.maximumSelectionLength)>>
            /\ ret' = "false"
       ELSE ~Emitted("selectionLimitReached")']_vars

\* a third id was refused at two selected items, with maximum 2
C11_Witness ==
    /\ options.multiple
    /\ options.maximumSelectionLength = 2
    /\ Len(selection) = 2
    /\ call.op = "select"
    /\ ~exists(selection, call.item)
    /\ ret = "false"
    /\ events = <<Event("selectionLimitReached", 2)>>

\* ------------------------------------------- claims, the remote source
\* the transport requests that are pending and were not told to abort
Live == {r \in inflight : ~r.cached /\ ~r.aborted}

\* C12: a step in which query() dispatches a transport request leaves every
\* transport request that was pending before it aborted, so at most one
\* transport request that was not aborted is pending at any time.
C12_SingleFlight ==
    /\ [][(\E n \in inflight' : n.token >= nextToken /\ ~n.cached) =>
            \A r \in inflight' : r.token < nextToken /\ ~r.cached
                                   => r.aborted]_vars
    /\ [](Cardinality(Live) <= 1)

\* C13: no exception leaves AjaxAdapter.query(), whatever the transport;
\* its promise resolves to the normalized {results, pagination} of the
\* response on success and to {results: [], pagination: {more: false}} on
\* a failure; ajaxError is emitted for a failure that is not a cancellation
\* and for nothing else.
C13_QueryNeverThrows ==
    /\ [](ended # "throw")
    /\ [][call'.op = "response" =>
            /\ call'.how = "ok" /\ ~call'.req.cached =>
                 call'.resp = normalizedResults(call'.req)
            /\ call'.how # "ok" => call'.resp = EmptyResponse
            /\ Emitted("ajaxError")' <=> call'.how = "error"]_vars

\* C14: a response of a superseded search, success or failure, puts no
\* error message on display.
C14_SilentDiscard ==
    [][call'.op = "response" /\ call'.req.token # currentSearchToken =>
        (errorShown' => errorShown)]_vars

\* the searches this step issued
Issued == {n \in inflight' : n.token >= nextToken}

\* C15: with ajax.cache on, every cache entry is the normalized result of a
\* successful response for its {term, page}; a query whose {term, page} is
\* in the cache calls no transport, emits no ajaxLoading and resolves to
\* the entry, every other query calls the transport; a failed or cancelled
\* request leaves the cache as it is.  With ajax.cache off the cache stays
\* empty and every query calls the transport.
C15_Cache ==
    /\ [](\A e \in cache :
            /\ options.cache
            /\ e.value = normalizedResults([term |-> e.key[1],
                                            page |-> e.key[2]]))
    /\ [][/\ \A n \in Issued :
                n.cached <=> options.cache /\ cacheHas(cache, n.term, n.page)
          /\ Len(EventsNamed("ajaxLoading"))' =
                Cardinality({n \in Issued : ~n.cached})
          /\ call'.op = "response" =>
                /\ call'.req.cached =>
                     call'.resp = cacheGet(cache, call'.req.term,
                                           call'.req.page)
                /\ call'.how # "ok" => cache' = cache
                /\ call'.how = "ok" /\ options.cache =>
                     cacheHas(cache', call'.req.term, call'.req.page)]_vars

\* a search was answered from the cache with a page of results, which the
\* coordinator applied
C15_Witness ==
    /\ call.op = "response"
    /\ call.req.cached
    /\ call.resp.results # <<>>
    /\ call.resp = normalizedResults(call.req)
    /\ lastAccepted.token = call.req.token
    /\ resultsList = call.resp.results

\* C16: a step that selects an item (DataAdapter.select and what its
\* notifications set off) tells no pending request to abort.
C16_SelectKeepsRequest ==
    [][call'.op \in {"select", "selectItem"} /\ call'.item # NoItem =>
        \A r \in inflight : r \in inflight']_vars

\* ------------------------------------------------- claims: local search
\* a local search has just been answered
LocalQueryStep == ~options.ajax /\ call'.op = "query"

\* the entries of a result list that are marked as tags
TagEntries(results) ==
    {i \in 1..Len(results) : "_isTag" \in DOMAIN results[i]}

\* the lower-cased ids of the entries of a result list, top level (groups
\* included) and inside groups
LowerIds(results) ==
    {lowerId(results[i].id) : i \in 1..Len(results)}
        \cup {lowerId(flatResults(results)[i].id) :
                 i \in 1..Len(flatResults(results))}

\* C17: after a local search the result list holds an entry marked as a tag,
\* built from the trimmed term, if and only if tags are enabled, the term is
\* not blank, createTag returned a candidate and no entry of the filtered
\* results, top level or inside a group, has the candidate's id ignoring
\* case; with a blank term or tags disabled no tag entry is present.
C17_TagIffNoSuchId ==
    [][LocalQueryStep =>
        LET term == call'.term
            found == search(options.matchStrategy, data, term)
            candidate == createTag(term)
            expected == /\ options.tags
                        /\ ~isBlank(term)
                        /\ candidate # NoItem
                        /\ lowerId(candidate.id) \notin LowerIds(found)
        IN  /\ (TagEntries(resultsList') # {}) <=> expected
            /\ \A i \in TagEntries(resultsList') :
                   resultsList'[i] = candidate]_vars

\* the children of a group that match the term
MatchingChildren(group, term) ==
    SelectSeq(group.children,
              LAMBDA child : _defaultMatcher(options.matchStrategy, term,
                                             child))

\* the positions of the Item Store's collection that a search for the term
\* keeps: an item that matches, a group with a matching child
Kept(term) ==
    {i \in 1..Len(data) :
        IF isGroup(data[i]) THEN Len(MatchingChildren(data[i], term)) > 0
        ELSE _defaultMatcher(options.matchStrategy, term, data[i])}

\* the result list without its tag entries
Untagged(results) == SelectSeq(results, LAMBDA e : "_isTag" \notin DOMAIN e)

\* C18: a search with a non-blank term shows, in the original order, every
\* top-level item that matches and, for every group with a matching child, a
\* copy of the group with exactly its matching children; a group without a
\* matching child is absent whatever its label; the Item Store's collection
\* is left as it was.
C18_SearchResult ==
    [][(LocalQueryStep /\ ~isBlank(call'.term)) =>
        LET term == call'.term
            shown == Untagged(resultsList')
            pos(i) == Cardinality({j \in Kept(term) : j <= i})
        IN  /\ data' = data
            /\ Len(shown) = Cardinality(Kept(term))
            /\ \A i \in Kept(term) :
                   shown[pos(i)] =
                       IF isGroup(data[i])
                       THEN [data[i] EXCEPT
                                !.children = MatchingChildren(data[i], term)]
                       ELSE data[i]]_vars

\* a search has shown a group with fewer children than it has in the Item
\* Store, and has left out a group whose label matches the term
C18_Witness ==
    /\ call.op = "query"
    /\ ~isBlank(call.term)
    /\ \E i \in 1..Len(data), j \in 1..Len(resultsList) :
          /\ isGroup(data[i]) /\ isGroup(resultsList[j])
          /\ resultsList[j].id = data[i].id
          /\ Len(resultsList[j].children) < Len(data[i].children)
    /\ \E i \in 1..Len(data) :
          /\ isGroup(data[i])
          /\ _defaultMatcher(options.matchStrategy, call.term, data[i])
          /\ \A j \in 1..Len(resultsList) : resultsList[j].id # data[i].id

\* the base letter of a character: lower case, without its diacritic
BaseLetter(char) == IF char \in {"a", "A", "a'"} THEN "a" ELSE char

\* the text at this offset reads as the term, letter by base letter
ReadsAt(text, offset, term) ==
    /\ offset + Len(term) <= Len(text)
    /\ \A i \in 1..Len(term) :
          BaseLetter(text[offset + i]) = BaseLetter(term[i])

\* the reference predicate of the default matcher
Matches(term, item) ==
    \/ \A i \in 1..Len(term) : term[i] = " "
    \/ /\ ~item.disabled
       /\ CASE options.matchStrategy = "startsWith" ->
                  ReadsAt(item.text, 0, term)
            [] options.matchStrategy = "exact" ->
                  Len(item.text) = Len(term) /\ ReadsAt(item.text, 0, term)
            [] OTHER ->
                  \E offset \in 0..Len(item.text) :
                      ReadsAt(item.text, offset, term)

\* the items of the Item Store's collection, group children included
StoredItems == flatResults(data)

\* the ids of the items a result list shows, group children included
ShownIds(results) ==
    {flatResults(Untagged(results))[i].id :
        i \in 1..Len(flatResults(Untagged(results)))}

\* C19: the default matcher is the reference predicate: whatever is typed,
\* an item of the collection is shown exactly when the term is blank, or the
\* item is not disabled and its text, lower-cased and stripped of
\* diacritics, starts with, equals or contains (by matchStrategy) the term
\* treated the same way.
C19_DefaultMatcher ==
    [][LocalQueryStep =>
        \A i \in 1..Len(StoredItems) :
            (StoredItems[i].id \in ShownIds(resultsList'))
                <=> Matches(call'.term, StoredItems[i])]_vars

\* typing "a" has shown the item whose text is a with an acute accent and
\* has hidden a disabled item
C19_Witness ==
    /\ call.op = "query"
    /\ call.term = <<"a">>
    /\ \E i \in 1..Len(StoredItems) :
          /\ StoredItems[i].text = <<"a'">>
          /\ StoredItems[i].id \in ShownIds(resultsList)
    /\ \E i \in 1..Len(StoredItems) :
          /\ StoredItems[i].disabled
          /\ StoredItems[i].id \notin ShownIds(resultsList)

\* --------------------------------------------- claims: keyboard navigation
\* the flat rendered list and its entries that are not disabled
Rendered == flatResults(resultsList)

Enabled == {i \in 0..(Len(Rendered) - 1) : ~Rendered[i + 1].disabled}

\* the index reached from the highlighted one by k moves in a direction,
\* cyclically; with nothing highlighted the first move down reaches the
\* first entry and the first move up the last
Reached(direction, k) ==
    IF highlightedIndex = -1
    THEN IF direction = 1 THEN k - 1 ELSE Len(Rendered) - k
    ELSE (highlightedIndex + k * direction) % Len(Rendered)

\* the nearest enabled entry in a direction
Nearest(direction) ==
    LET k == CHOOSE k \in 1..Len(Rendered) :
                 /\ Reached(direction, k) \in Enabled
                 /\ \A j \in 1..(k - 1) : Reached(direction, j) \notin Enabled
    IN  Reached(direction, k)

\* C20: when the flat rendered list has an enabled entry, ArrowDown and
\* ArrowUp end with the highlight on the nearest enabled entry in the
\* direction of travel, cyclically, and Home and End end with it on the
\* first and on the last enabled entry.
C20_Navigation ==
    [][Enabled # {} =>
        /\ call'.op = "down" =>
               ended' = "ok" /\ highlightedIndex' = Nearest(1)
        /\ call'.op = "up" =>
               ended' = "ok" /\ highlightedIndex' = Nearest(-1)
        /\ call'.op = "home" =>
               /\ highlightedIndex' \in Enabled
               /\ \A i \in Enabled : highlightedIndex' <= i
        /\ call'.op = "end" =>
               /\ highlightedIndex' \in Enabled
               /\ \A i \in Enabled : highlightedIndex' >= i]_vars

\* ArrowDown on the last entry has wrapped around and skipped a disabled
\* first entry
C20_Witness ==
    /\ call.op = "down"
    /\ Len(Rendered) >= 3
    /\ call.id.v = Len(Rendered) - 1
    /\ Rendered[1].disabled
    /\ highlightedIndex >= 1
    /\ highlightedIndex < call.id.v

\* C21: when every entry of the rendered list is disabled, ArrowUp,
\* ArrowDown, Home and End end normally and leave the highlighted index as it
\* was, whatever it was (-1 included).
C21_AllDisabledNoOp ==
    [][(Enabled = {} /\ call'.op \in {"down", "up", "home", "end"}) =>
        ended' = "ok" /\ highlightedIndex' = highlightedIndex]_vars

C23_HostSync ==
    [][(call'.op \in {"select", "selectItem", "unselect", "removeClick",
                      "clear"}
          /\ selection' # selection) =>
        /\ {String(element'[i].value) :
               i \in {j \in 1..Len(element') : element'[j].selected}}
             = {String(selection'[i].id) : i \in 1..Len(selection')}
        /\ \E i \in 1..Len(events') : events'[i].name = "native change"]_vars

\* C24: the public clear() first dispatches the cancelable vs:clearing
\* event; if a listener prevents it the selection and the host element are
\* left as they were and no clear event is emitted; otherwise the selection
\* is emptied, no option of the host element stays selected, clear is
\* emitted exactly once, and no select, unselect or change notification is
\* emitted.
C24_Clear ==
    [][call'.op \in {"clear", "clearPrevented"} =>
        /\ events' # <<>> /\ events'[1].name = "vs:clearing"
        /\ \A i \in 1..Len(events') :
               events'[i].name \notin {"select", "unselect", "change"}
        /\ IF call'.op = "clearPrevented"
           THEN /\ selection' = selection
                /\ element' = element
                /\ \A i \in 1..Len(events') : events'[i].name # "clear"
           ELSE /\ selection' = <<>>
                /\ \A i \in 1..Len(element') : ~element'[i].selected
                /\ Cardinality({i \in 1..Len(events') :
                                   events'[i].name = "clear"}) = 1]_vars

\* a prevented clear() has left a selection in place
C24_Witness ==
    /\ call.op = "clearPrevented"
    /\ call.item # NoItem
    /\ selection # <<>>
    /\ \E i \in 1..Len(element) : element[i].selected

\* C25: before a selection or an unselection takes effect the cancelable
\* vs:selecting / vs:unselecting event is dispatched on the host element,
\* and when a listener prevents it the selection is left as it was and no
\* select, unselect or change is emitted.
C25_PreventableSelect ==
    /\ [][(call'.op \in {"select", "selectItem"} /\ call'.item # NoItem) =>
            /\ \E i \in 1..Len(events') : events'[i].name = "vs:selecting"
            /\ "vs:selecting" \in prevents =>
                   /\ selection' = selection
                   /\ \A i \in 1..Len(events') :
                          events'[i].name \notin {"select", "change"}]_vars
    /\ [][(call'.op \in {"unselect", "removeClick"}
              /\ call'.item # NoItem) =>
            /\ \E i \in 1..Len(events') : events'[i].name = "vs:unselecting"
            /\ "vs:unselecting" \in prevents =>
                   /\ selection' = selection
                   /\ \A i \in 1..Len(events') :
                          events'[i].name \notin {"unselect", "change"}]_vars

\* C26: open() on an open dropdown and close() on a closed one emit nothing
\* and change nothing; open() on a closed dropdown dispatches vs:opening
\* and, when a listener prevents it, leaves the dropdown closed and emits no
\* open, otherwise opens it and emits open; close() on an open dropdown
\* dispatches vs:closing and, when a listener prevents it, leaves the
\* dropdown open and emits no close, otherwise closes it and emits close.
C26_PreventableOpenClose ==
    /\ [][call'.op = "open" =>
            IF isOpen THEN events' = <<>> /\ isOpen'
            ELSE /\ events'[1].name = "vs:opening"
                 /\ isOpen' = ("vs:opening" \notin prevents)
                 /\ (\E i \in 1..Len(events') : events'[i].name = "open")
                       <=> "vs:opening" \notin prevents]_vars
    /\ [][call'.op = "close" =>
            IF ~isOpen THEN events' = <<>> /\ ~isOpen'
            ELSE /\ events'[1].name = "vs:closing"
                 /\ isOpen' = ("vs:closing" \in prevents)
                 /\ (\E i \in 1..Len(events') : events'[i].name = "close")
                       <=> "vs:closing" \notin prevents]_vars

\* a prevented open() has left the dropdown closed
C26_Witness ==
    /\ call.op = "open"
    /\ "vs:opening" \in prevents
    /\ ~isOpen
    /\ Len(events) = 1
    /\ events[1].name = "vs:opening"

TimerKinds == {"limitMessage", "errorMessage", "loadMore"}

TimerSteps == {"limitTimer", "errorTimer", "loadMoreTimer"}

\* C27: at most one timer of each affordance (limit message, error message,
\* loading-more indicator) is pending at any time, and it is the one the
\* adapter holds the handle of; once destroy() has run no timer is pending
\* and no step is the callback of one.
C27_TimersCancelled ==
    /\ [](\A kind \in TimerKinds : timers[kind] <= 1)
    /\ []((timers.limitMessage = 1) = limitMessageTimeout)
    /\ []((timers.errorMessage = 1) = errorMessageTimeout)
    /\ []((timers.loadMore = 1) = loadMoreTimeout)
    /\ [](destroyed => \A kind \in TimerKinds : timers[kind] = 0)
    /\ [][destroyed => call'.op \notin TimerSteps]_vars

\* destroy() has run while the loading-more timer was pending: the flag its
\* callback resets is still set
C27_Witness ==
    /\ destroyed
    /\ call.op = "destroy"
    /\ isLoadingMore
    /\ timers.loadMore = 0


\* the term is typed but too short to be searched for
TooShort(term) == term # <<>> /\ Len(term) < options.searchMinimumLength

\* C28: a typed term that is not empty and shorter than searchMinimumLength
\* is not queried, neither when it is typed nor when the delay has elapsed:
\* the step emits no query, leaves the displayed list and the search term as
\* they are and issues no request.
C28_MinimumLength ==
    [][call'.op \in {"input", "debounceTimer"} /\ TooShort(call'.term) =>
          /\ ~Emitted("query")'
          /\ resultsList' = resultsList
          /\ currentSearchTerm' = currentSearchTerm
          /\ \A n \in inflight' : n.token < nextToken]_vars


\* C29: after a step in which a remote response (of page 1 or of a later
\* page) is accepted and the displayed list has an enabled entry, an enabled
\* entry is highlighted.
C29_HighlightAfterResponse ==
    [][/\ call'.op = "response"
       /\ call'.how = "ok"
       /\ call'.req.token = currentSearchToken
       /\ \E i \in 1..Len(flatResults(resultsList')) :
              ~flatResults(resultsList')[i].disabled
       => /\ highlightedIndex' >= 0
          /\ ~flatResults(resultsList')[highlightedIndex' + 1].disabled]_vars


\* the value of the most recent input event
LastInput == burst[Len(burst)]

\* the step emits QUERY exactly once
OneQuery == Len(EventsNamed("query")) = 1

C30_WitnessImmediate ==
    /\ call.op = "input"
    /\ searchDelay = 0
    /\ OneQuery
    /\ currentSearchTerm = <<"a">>


\* the ajax option names no endpoint: neither a url nor a transport
NoEndpoint == options.ajax /\ options.transport = "nourl"

\* C31: a widget whose ajax option names no endpoint is rejected when it is
\* constructed: construction throws, and no request is ever issued for it.
C31_RejectedAtConstruction ==
    NoEndpoint => ended = "throw" /\ inflight = {} /\ nextToken = 1


\* the events of the last handler that a select is about, in order
SelectEvents ==
    SelectSeq(events, LAMBDA e : e.name \in {"native change", "select",
                                             "change"})

\* every <option> of the host element is checked iff its value is selected
HostInSync ==
    \A i \in 1..Len(element) :
        element[i].selected = includes(selection, element[i].value)

Quiet == [Cur EXCEPT !.call = 0, !.ret = 0, !.events = 0, !.ended = 0]

\* C33: destroy() on a live instance leaves the selection and the item
\* collection empty, the instance destroyed and no longer registered on the
\* host element; on a destroyed instance destroy() changes nothing and
\* emits nothing.
C33_DestroyEmpties ==
    [][call'.op = "destroy" =>
          /\ destroyed' /\ ~registered'
          /\ ended' = "ok"
          /\ IF destroyed THEN Quiet' = Quiet /\ events' = <<>>
             ELSE /\ selection' = <<>> /\ data' = <<>>
                  /\ Emitted("destroy")']_vars

\* destroy() has been called on a destroyed widget whose host element had a
\* checked option when the widget was constructed
C33_Witness ==
    /\ call.op = "destroy"
    /\ destroyed
    /\ events = <<>>
    /\ selection = <<>>
    /\ \E i \in 1..Len(element) : element[i].selected


RECURSIVE PagesUpTo(_, _)
\* the results of pages 1..n of a term, in order
PagesUpTo(term, n) ==
    IF n = 0 THEN <<>>
    ELSE PagesUpTo(term, n - 1)
             \o normalizedResults([term |-> term, page |-> n]).results

\* C34: after a step in which a successful response is accepted,
\* accumulatedResults, the displayed list and the item collection are the
\* results of pages 1..currentPage of currentSearchTerm, in order.
C34_NoGap ==
    [][/\ call'.op = "response"
       /\ call'.how = "ok"
       /\ call'.req.token = currentSearchToken
       => /\ accumulatedResults' = PagesUpTo(currentSearchTerm', currentPage')
          /\ resultsList' = accumulatedResults'
          /\ data' = accumulatedResults']_vars

\* ------------------------------------------- pointer and keyboard confirm
\* ResultsList.getHighlighted
getHighlighted(s) ==
    LET flat == flatResults(s.resultsList)
    IN  IF s.highlightedIndex >= 0 /\ s.highlightedIndex < Len(flat)
        THEN flat[s.highlightedIndex + 1]
        ELSE NoItem

\* KeyboardManager._selectHighlighted, what Enter in the search box runs
_selectHighlighted(s) ==
    LET highlighted == getHighlighted(s)
    IN  IF highlighted # NoItem THEN selectItem(s, highlighted) ELSE s

\* the click listener of the results container, for a click on the entry
\* rendered with data-index = index: data-id is looked up in the store
_clickHandler(s, index) ==
    LET resultEl == flatResults(s.resultsList)[index + 1]
        item == _findItemById(s.data, String(resultEl.id))
    IN  IF resultEl.disabled THEN s
        ELSE IF item # NoItem THEN selectItem(s, item)
        ELSE s

Enter ==
    /\ ~destroyed
    /\ isOpen
    /\ NoMicrotask
    /\ Budget(2)
    /\ Commit([_selectHighlighted([Begin EXCEPT !.ret = "none"]) EXCEPT
            !.call = Called("enter", FromIndex(highlightedIndex),
                            currentSearchTerm, getHighlighted(Cur),
                            NoRequest, EmptyResponse)])

Click(index) ==
    /\ ~destroyed
    /\ isOpen
    /\ NoMicrotask
    /\ Budget(2)
    /\ Commit([_clickHandler([Begin EXCEPT !.ret = "none"], index) EXCEPT
            !.call = Called("click", FromIndex(index), currentSearchTerm,
                            flatResults(resultsList)[index + 1],
                            NoRequest, EmptyResponse)])

\* what is typed while picking
PickTerms == {<<>>, <<"a">>}

\* the ids select() is called with: those of the selectable items of the
\* store
PickIds == {flatResults(data)[i].id : i \in 1..Len(flatResults(data))}

\* a widget without ajax over an empty host element, its items (disabled
\* ones and groups among them) given by options.data
InitPick ==
    \E tags \in BOOLEAN, multiple \in BOOLEAN,
       items \in SeqsUpTo(ItemPool, MaxItems) :
        LET opts == [multiple |-> multiple,
                     maximumSelectionLength |-> 1,
                     closeOnSelect |-> FALSE, searchMinimumLength |-> 0,
                     tags |-> tags, matchStrategy |-> "contains",
                     ajax |-> FALSE, cache |-> FALSE,
                     transport |-> "default"]
        IN  Is(update(setData(Fresh(opts, <<>>), items), <<>>))

NextPick ==
    \/ Open
    \/ Close
    \/ \E term \in PickTerms : OnQueryLocal(term)
    \/ \E index \in 0..(Len(flatResults(resultsList)) - 1) : Mouseover(index)
    \/ \E direction \in {-1, 1} : Navigate(direction)
    \/ Enter
    \/ \E index \in 0..(Len(flatResults(resultsList)) - 1) : Click(index)
    \/ \E id \in PickIds : ApiSelect(id)

SpecPick == InitPick /\ [][NextPick]_vars

\* C35: a disabled item never enters the selection: whatever the step
\* (click, mouse-over, arrow keys, Enter, select(id)), every item that is in
\* the selection after it and was not before is enabled
C35_DisabledNeverSelected ==
    [][\A i \in 1..Len(selection') :
          selection'[i] \notin Range(selection) => ~selection'[i].disabled]_vars

\* the item a click on the entry at index hands to selectItem, NoItem when it
\* hands none
clicked(s, index) ==
    LET resultEl == flatResults(s.resultsList)[index + 1]
    IN  IF resultEl.disabled THEN NoItem
        ELSE _findItemById(s.data, String(resultEl.id))

\* C36: pointer and keyboard confirmation agree: in every state with the
\* dropdown open and for every enabled entry of the rendered list (a
\* synthesized tag entry included), a click on the entry and Enter while the
\* entry is highlighted hand the same item to selectItem and leave the same
\* selection and the same data
C36_ClickIsEnter ==
    isOpen =>
        \A index \in 0..(Len(flatResults(resultsList)) - 1) :
            ~flatResults(resultsList)[index + 1].disabled =>
                LET byClick == _clickHandler(Cur, index)
                    byEnter == _selectHighlighted(highlight(Cur, index))
                IN  /\ clicked(Cur, index) = getHighlighted(highlight(Cur, index))
                    /\ byClick.selection = byEnter.selection
                    /\ byClick.data = byEnter.data

\* ------------------------------------------------- typed and applied term
\* a widget with its dropdown's search box: remote with the default delay, or
\* local over UseData and immediate
InitTerm ==
    \E ajax \in BOOLEAN, multiple \in BOOLEAN, closeOnSelect \in BOOLEAN :
        LET opts == [multiple |-> multiple, maximumSelectionLength |-> 0,
                     closeOnSelect |-> closeOnSelect,
                     searchMinimumLength |-> 0,
                     tags |-> FALSE, matchStrategy |-> "contains",
                     ajax |-> ajax, cache |-> FALSE,
                     transport |-> "default"]
            s0 == [Fresh(opts, <<>>) EXCEPT !.searchDelay = delayOf(ajax, 0)]
        IN  Is(update(IF ajax THEN s0 ELSE setData(s0, UseData), <<>>))

\* the search box is inside the dropdown: it is typed into while open
NextTerm ==
    \/ Open
    \/ Close
    \/ \E term \in InputTerms : isOpen /\ Input(term)
    \/ DebounceTimer
    \/ \E req \in inflight, outcome \in {"ok", "error"} : Settle(req, outcome)
    \/ Enter
    \/ \E choice \in Range(selection) : RemoveClick(choice)

SpecTerm == InitTerm /\ [][NextTerm]_vars

\* C37: term consistency: whenever no debounced input is pending, the term
\* the list was last computed for is the text in the search box
C37_TermIsBoxText ==
    (~destroyed /\ debounceTimers = <<>>) => currentSearchTerm = searchValue

\* ---------------------------------------------------- after destroy
\* the Query State of the coordinator
QueryState ==
    <<currentSearchTerm, currentPage, hasMore, isLoadingMore,
      accumulatedResults, currentSearchToken>>

\* C38: once destroy() has returned, no step (a debounce timer, a message
\* timer, the response of a request that was in flight) changes the data, the
\* selection or the Query State, and none ends with an exception
C38_InertAfterDestroy ==
    [][destroyed => /\ data' = data
                    /\ selection' = selection
                    /\ QueryState' = QueryState
                    /\ ended' # "throw"]_vars

\* ------------------------------------------------------ enable, disable
\* VanillaSmartSelect.toggle
VanillaSmartSelect_toggle(s) ==
    IF s.isOpen THEN VanillaSmartSelect_close(s)
    ELSE VanillaSmartSelect_open(s)

\* VanillaSmartSelect.enable
VanillaSmartSelect_enable(s) ==
    IF ~s.isDisabled THEN s ELSE [s EXCEPT !.isDisabled = FALSE]

\* VanillaSmartSelect.disable: closes the dropdown through close()
VanillaSmartSelect_disable(s) ==
    IF s.isDisabled THEN s
    ELSE LET s1 == [s EXCEPT !.isDisabled = TRUE]
         IN  IF s1.isOpen THEN VanillaSmartSelect_close(s1) ELSE s1

Toggle ==
    /\ ~destroyed
    /\ Commit([VanillaSmartSelect_toggle(Begin) EXCEPT
            !.call = Called("toggle", NoId, <<>>, NoItem, NoRequest,
                            EmptyResponse)])

Enable ==
    /\ ~destroyed
    /\ Commit([VanillaSmartSelect_enable(Begin) EXCEPT
            !.call = Called("enable", NoId, <<>>, NoItem, NoRequest,
                            EmptyResponse)])

Disable ==
    /\ ~destroyed
    /\ Commit([VanillaSmartSelect_disable(Begin) EXCEPT
            !.call = Called("disable", NoId, <<>>, NoItem, NoRequest,
                            EmptyResponse)])

\* a local widget over UseData whose host element is disabled or not, with
\* the listeners the page registered on the cancelable events
InitAble ==
    \E disabled \in BOOLEAN, multiple \in BOOLEAN, listeners \in Preventing :
        LET opts == [multiple |-> multiple, maximumSelectionLength |-> 0,
                     closeOnSelect |-> TRUE, searchMinimumLength |-> 0,
                     tags |-> FALSE, matchStrategy |-> "contains",
                     ajax |-> FALSE, cache |-> FALSE,
                     transport |-> "default"]
        IN  Is(update(setData([Fresh(opts, <<>>) EXCEPT
                                   !.prevents = listeners,
                                   !.isDisabled = disabled], UseData), <<>>))

NextAble ==
    \/ ApiOpen
    \/ ApiClose
    \/ Toggle
    \/ Enable
    \/ Disable
    \/ \E term \in InputTerms : isOpen /\ Input(term)
    \/ Enter

SpecAble == InitAble /\ [][NextAble]_vars

\* C39: a disabled widget is never open
C39_DisabledIsClosed == isDisabled => ~isOpen

\* ------------------------------------------------------------ EventEmitter
\* what a handler does when it is called: return, throw, or (on its first
\* call) emit the event it listens to
HandlerKinds == {"returns", "throws", "emits"}

\* EventEmitter.on: the listener is pushed; n identifies the function object
EventEmitter_on(s, kind, once) ==
    LET n == Len(s.invoked) + 1
    IN  [s EXCEPT !._events = Append(@, [n |-> n, kind |-> kind,
                                        once |-> once]),
                  !.invoked = Append(@, [once |-> once, calls |-> 0])]

\* EventEmitter.once: on() with a wrapper around the handler
EventEmitter_once(s, kind) == EventEmitter_on(s, kind, TRUE)

\* EventEmitter.off with a registered function
EventEmitter_off(s, n) ==
    [s EXCEPT !._events = SelectSeq(@, LAMBDA l : l.n # n)]

RECURSIVE EventEmitter_emit(_)
\* the handler's own code
handler(s, l) ==
    LET s1 == [s EXCEPT !.invoked[l.n].calls = @ + 1]
    IN  IF l.kind = "emits" /\ s.invoked[l.n].calls = 0
        THEN EventEmitter_emit(s1)
        ELSE s1

\* onceWrapper: the handler, then off(); a throw of the handler leaves the
\* wrapper before off()
onceWrapper(s, l) ==
    IF l.kind = "throws" THEN handler(s, l)
    ELSE EventEmitter_off(handler(s, l), l.n)

\* the body of emit's forEach: the call in try/catch, a throw is logged
tryHandler(s, l) == IF l.once THEN onceWrapper(s, l) ELSE handler(s, l)

RECURSIVE forEach(_, _)
forEach(s, handlers) ==
    IF handlers = <<>> THEN s
    ELSE forEach(tryHandler(s, Head(handlers)), Tail(handlers))

\* EventEmitter.emit: over a copy of the listeners taken at the start
EventEmitter_emit(s) ==
    IF s._events = <<>> THEN s ELSE forEach(s, s._events)

On(kind) ==
    /\ Len(invoked) < MaxListeners
    /\ Commit([EventEmitter_on(Begin, kind, FALSE) EXCEPT
            !.call = Called("on", NoId, <<>>, NoItem, NoRequest,
                            EmptyResponse)])

Once(kind) ==
    /\ Len(invoked) < MaxListeners
    /\ Commit([EventEmitter_once(Begin, kind) EXCEPT
            !.call = Called("once", NoId, <<>>, NoItem, NoRequest,
                            EmptyResponse)])

\* off() can be given the function passed to on(); the wrapper made by
\* once() is not known outside
Off(n) ==
    /\ \E i \in 1..Len(_events) : _events[i].n = n /\ ~_events[i].once
    /\ Commit([EventEmitter_off(Begin, n) EXCEPT
            !.call = Called("off", NoId, <<>>, NoItem, NoRequest,
                            EmptyResponse)])

Emit ==
    /\ \A n \in 1..Len(invoked) : invoked[n].calls < MaxCalls
    /\ Commit([EventEmitter_emit(Begin) EXCEPT
            !.call = Called("emit", NoId, <<>>, NoItem, NoRequest,
                            EmptyResponse)])

\* an emitter without listeners
InitEmitter ==
    Is(Fresh([multiple |-> FALSE, maximumSelectionLength |-> 0,
              closeOnSelect |-> TRUE, searchMinimumLength |-> 0,
              tags |-> FALSE, matchStrategy |-> "contains",
              ajax |-> FALSE, cache |-> FALSE, transport |-> "default"],
             <<>>))

NextEmitter ==
    \/ \E kind \in HandlerKinds : On(kind)
    \/ \E kind \in HandlerKinds : Once(kind)
    \/ \E n \in 1..Len(invoked) : Off(n)
    \/ Emit

SpecEmitter == InitEmitter /\ [][NextEmitter]_vars

\* C40: a handler registered with once() runs at most once, whatever it does
\* (return, throw, emit the event again), and no emit ends with an exception
C40_OnceAtMostOnce ==
    /\ \A n \in 1..Len(invoked) : invoked[n].once => invoked[n].calls <= 1
    /\ ended = "ok"

====
